---- MODULE Spec2Model ----
(***************************************************************************)
(* lo_event: the FIFO Queue with its two backends and single-consumer      *)
(* dequeue loop (queue.ts, indexeddbQueue.ts), and the orchestrator that   *)
(* drives it (loEvent.ts, disabler.ts).                                    *)
(*                                                                         *)
(* Items are identified by their enqueue index: the k-th enqueue call      *)
(* enqueues item k.  Every `await` of the source is a point where other    *)
(* callbacks (callers, store request completions) may run.                 *)
(***************************************************************************)
EXTENDS Naturals, Integers, Sequences, FiniteSets, TLC

\* ------------------------------------------------------------------ bounds
MaxItems == 3
MaxStarts == 2

\* --------------------------------------------------------------- constants
ENQUEUE == "enqueue"
DEQUEUE == "dequeue"
AUTODETECT == "AUTODETECT"
IN_MEMORY == "IN_MEMORY"
PERSISTENT == "PERSISTENT"
NoOp == [operation |-> "none", payload |-> 0]

VARIABLES
  \* queue.ts Queue
  queueType,               \* backend selected by the constructor
  run,                     \* util.once flag of startDequeueLoop
  pc,                      \* position of _startDequeueLoop
  item,                    \* the item the loop holds (0: none)
  \* memoryQueue backend
  memq,
  \* indexeddbQueue backend
  dbOpen,                  \* this.db set by request.onsuccess
  dbOperationQueue,
  nextDBOperationPromise,  \* the generator is parked for the next operation
  nextItemPromise,         \* a dequeue is parked for the next item
  proc,                    \* position of startProcessing
  handed,                  \* operation handed to the parked generator
  rows,                    \* object store rows, lowest key first
  txq,                     \* store requests issued and not yet completed
  \* observation of the callbacks
  received,                \* items onDequeue was invoked with, in order
  onErrors,                \* messages passed to onError, in order
  initOutcome,             \* what initialize() returned
  shouldOutcome,           \* what the last completed shouldDequeue() returned
  shouldCalls,
  dequeueCalls,
  loopsStarted,            \* invocations of _startDequeueLoop
  onceThrows,              \* errors util.once raised to callers
  startCalls,
  enqCount,                \* enqueue calls so far
  preCount,                \* enqueue calls made before startDequeueLoop (-1: not started)
  \* loEvent.ts
  initialized,             \* INIT_STATES
  chain,                   \* steps appended to currentState and not yet started
  step,                    \* the step of currentState that is running
  rejected,                \* currentState has rejected
  pend,                    \* sinks whose init()/setField() promise is pending
  sinkEvents,              \* per sink: the events it was called with
  sinkTags,                \* per sink: the lock-fields broadcasts setField received
  lockState,               \* per sink: the merged lock fields (wsLogData metadata)
  lastFields,              \* fields of the latest broadcast
  calls,                   \* public calls made so far
  logCount,                \* logEvent calls so far
  faults,                  \* faults raised by sinks so far
  blocks,                  \* the sends in which sinks raised BlockErrors, in order
  fanout,                  \* per sink: what it did in the latest sendEvent call
  \* disabler.ts
  action,
  expiration,
  stored,                  \* the disablerState record in storage
  now,                     \* Date.now()
  \* websocketLogger.ts
  wsPc,                    \* where startWebsocketConnectionLoop is
  failures,
  wsReady,                 \* READY
  wsDelay,                 \* the milliseconds last passed to util.delay
  backoffN,                \* an argument of calculateExponentialBackoff
  backoffMs,               \* what it returned for it (-1: not called)
  sock,                    \* the state of `socket`, the socket made last
  stale,                   \* the states of the sockets made before it that have not closed
  wsq,                     \* the transport queue: the kinds of the messages in it
  tpc,                     \* where the dequeue loop of the transport queue is
  sent,                    \* the message socket.send was last called with
  fresh,                   \* `socket` has opened and nothing was sent since: how metadata was then
  blockerror,              \* the BlockError receiveMessage keeps for the next wsLogData call
  built,                   \* BlockErrors receiveMessage constructed so far
  handled,                 \* BlockErrors raised to sendEvent and handled so far
  \* observation of the store and of storage
  writes,                  \* objectStore.add calls so far
  firstEnq,                \* a caller of the Queue made its first enqueue call "before"
                           \* or "after" the first dequeue call
  resetWrites,             \* storage.set calls made by retry()
  deadline,                \* the latest Date.now() + timeLimit of the timed BlockErrors handled
  \* new Queue(name, {queueType})
  option,                  \* the queueType option
  idbDefined,              \* typeof indexedDB !== 'undefined'
  constructed,             \* "no", "yes", or "raised": what the constructor did
  \* browserStorage.ts
  storageKind,             \* the backend `storage` was set to at load
  \* util.ts mergeDictionary applied to arguments
  mergeTarget,             \* the target before the call
  mergeSource,
  merged                   \* the target after the call

backendVars == <<queueType, memq, dbOpen, dbOperationQueue, nextDBOperationPromise,
                 nextItemPromise, proc, handed, rows, txq>>
loopVars == <<run, pc, item, received, onErrors, initOutcome, shouldOutcome,
              shouldCalls, dequeueCalls, loopsStarted, onceThrows, startCalls, preCount>>
disablerVars == <<action, expiration, stored>>
sinkVars == <<sinkEvents, sinkTags, lockState, lastFields, faults, blocks, fanout>>
pipeVars == <<initialized, chain, step, rejected, pend, calls>>
blockVars == <<blockerror, built, handled>>
wsVars == <<wsPc, failures, wsReady, wsDelay, backoffN, backoffMs, sock, stale, wsq, tpc,
           sent, fresh, blockVars>>
probeVars == <<writes, firstEnq, resetWrites, deadline>>
ctorVars == <<option, idbDefined, constructed>>
envVars == <<ctorVars, storageKind>>
mergeVars == <<mergeTarget, mergeSource, merged>>
auxVars == <<probeVars, envVars, mergeVars>>
loCore == <<pipeVars, sinkVars, disablerVars, logCount, now, wsVars>>
loVars == <<pipeVars, sinkVars, disablerVars, logCount, now, wsVars, auxVars>>
vars == <<backendVars, loopVars, enqCount, loVars>>

\* ------------------------------------------------------------ util.once
\* once(func): the first call runs func, every later call throws.
OnceNeverThrows(r) == [call |-> TRUE, throw |-> FALSE, run |-> TRUE]
once(r) == [call |-> ~r, throw |-> r, run |-> TRUE]

\* ------------------------------------------------- queue.ts constructor
QueueTypes == {IN_MEMORY, PERSISTENT}

\* autodetect(): PERSISTENT when indexedDB is defined, IN_MEMORY otherwise.
autodetect(hasIndexedDB) == IF hasIndexedDB THEN PERSISTENT ELSE IN_MEMORY

\* The values a caller may pass as queueType: those of QueueType and one other.
QueueOptions == {AUTODETECT, IN_MEMORY, PERSISTENT, "OTHER"}

\* new Queue(name, {queueType}): AUTODETECT is resolved, then the backend class
\* is looked up in queueClasses and constructed; without a class the constructor
\* throws. The constructor of the indexedDB backend calls its async initialize()
\* and drops the promise, so the throw of initialize() where indexedDB is not
\* defined rejects that promise and is not raised by the constructor.
Resolved(opt, hasIndexedDB) == IF opt = AUTODETECT THEN autodetect(hasIndexedDB) ELSE opt

Construct ==
  /\ constructed = "no"
  /\ IF Resolved(option, idbDefined) \in QueueTypes
       THEN /\ queueType' = Resolved(option, idbDefined)
            /\ constructed' = "yes"
       ELSE /\ constructed' = "raised"
            /\ UNCHANGED queueType
  /\ UNCHANGED <<memq, dbOpen, dbOperationQueue, nextDBOperationPromise, nextItemPromise,
                 proc, handed, rows, txq, loopVars, enqCount, loCore, probeVars, option,
                 idbDefined, storageKind, mergeVars>>

\* --------------------------------------------- the loop's continuation
\* The pending dequeue() resolves with v: item !== null, so onDequeue(v) is invoked.
Deliver(v) ==
  /\ pc = "dequeue"
  /\ pc' = "onDequeue"
  /\ item' = v
  /\ received' = Append(received, v)
  /\ UNCHANGED <<run, onErrors, initOutcome, shouldOutcome, shouldCalls, dequeueCalls,
                 loopsStarted, onceThrows, startCalls, preCount>>

\* ---------------------------------------------------- memoryQueue backend
MemEnqueue(it) ==
  /\ memq' = Append(memq, it)
  /\ UNCHANGED <<queueType, dbOpen, dbOperationQueue, nextDBOperationPromise,
                 nextItemPromise, proc, handed, rows, txq>>

\* dequeue() stays suspended until an item is available, then takes the head.
MemDequeue ==
  /\ UNCHANGED loVars
  /\ queueType = IN_MEMORY
  /\ pc = "dequeue"
  /\ memq # <<>>
  /\ memq' = Tail(memq)
  /\ Deliver(Head(memq))
  /\ UNCHANGED <<queueType, dbOpen, dbOperationQueue, nextDBOperationPromise,
                 nextItemPromise, proc, handed, rows, txq, enqCount>>

\* ------------------------------------------------- indexeddbQueue backend
\* request.onsuccess of indexedDB.open: this.db is set and startProcessing() begins.
\* initialize() opens the database only where indexedDB is defined.
OpenSuccess ==
  /\ UNCHANGED loVars
  /\ queueType = PERSISTENT
  /\ idbDefined
  /\ ~dbOpen
  /\ dbOpen' = TRUE
  /\ proc' = "run"
  /\ UNCHANGED <<queueType, memq, dbOperationQueue, nextDBOperationPromise,
                 nextItemPromise, handed, rows, txq, loopVars, enqCount>>

\* addItemToDBOperationQueue(payload): hand to the parked generator, or push.
AddItemToDBOperationQueue(op) ==
  IF nextDBOperationPromise
    THEN /\ handed' = op
         /\ nextDBOperationPromise' = FALSE
         /\ proc' = "has"
         /\ UNCHANGED dbOperationQueue
    ELSE /\ dbOperationQueue' = Append(dbOperationQueue, op)
         /\ UNCHANGED <<handed, nextDBOperationPromise, proc>>

IdbEnqueue(it) ==
  /\ AddItemToDBOperationQueue([operation |-> ENQUEUE, payload |-> it])
  /\ UNCHANGED <<queueType, memq, dbOpen, nextItemPromise, rows, txq>>

IdbDequeue ==
  /\ AddItemToDBOperationQueue([operation |-> DEQUEUE, payload |-> 0])
  /\ UNCHANGED <<queueType, memq, dbOpen, nextItemPromise, rows, txq>>

\* addItemToDB(op): a parked dequeue gets the item and the store is bypassed;
\* otherwise objectStore.add(payload) is issued and the function returns at once.
AddItemToDB(op) ==
  IF nextItemPromise
    THEN /\ nextItemPromise' = FALSE
         /\ Deliver(op.payload)
         /\ UNCHANGED <<rows, txq, writes>>
    ELSE /\ txq' = Append(txq, [kind |-> "add", item |-> op.payload])
         /\ writes' = writes + 1
         /\ UNCHANGED <<nextItemPromise, rows, loopVars>>

\* nextItemFromDB(op): objectStore.openCursor() is issued and the function returns.
NextItemFromDB(op) ==
  /\ txq' = Append(txq, [kind |-> "cursor", item |-> 0])
  /\ UNCHANGED <<nextItemPromise, rows, loopVars, writes>>

\* dbOperationDispatch[operation.operation](operation)
Dispatch(op) ==
  IF op.operation = ENQUEUE THEN AddItemToDB(op) ELSE NextItemFromDB(op)

\* One turn of startProcessing over _nextDBOperation: shift and dispatch the next
\* operation, or park the generator when the operation queue is empty.
ProcNext ==
  /\ UNCHANGED <<loCore, firstEnq, resetWrites, deadline, envVars, mergeVars>>
  /\ proc = "run"
  /\ IF Len(dbOperationQueue) > 0
       THEN /\ dbOperationQueue' = Tail(dbOperationQueue)
            /\ Dispatch(Head(dbOperationQueue))
            /\ UNCHANGED <<proc, nextDBOperationPromise>>
       ELSE /\ nextDBOperationPromise' = TRUE
            /\ proc' = "wait"
            /\ UNCHANGED <<dbOperationQueue, nextItemPromise, rows, txq, loopVars, writes>>
  /\ UNCHANGED <<queueType, memq, dbOpen, handed, enqCount>>

\* The parked generator resumes with the operation it was handed.
ProcHanded ==
  /\ UNCHANGED <<loCore, firstEnq, resetWrites, deadline, envVars, mergeVars>>
  /\ proc = "has"
  /\ Dispatch(handed)
  /\ proc' = "run"
  /\ handed' = NoOp
  /\ UNCHANGED <<queueType, memq, dbOpen, dbOperationQueue, nextDBOperationPromise, enqCount>>

\* The row a cursor opened on the store is positioned at: the lowest key.
CursorLast(r) == r[Len(r)]
CursorRow(r) == Head(r)

RemoveRow(r, it) == SelectSeq(r, LAMBDA x : x # it)

\* Store requests over one object store complete in the order they were issued
\* (readwrite transactions with the same scope run in creation order).
\* request.onsuccess of objectStore.add: the row is written.
StoreAddSuccess ==
  /\ UNCHANGED loVars
  /\ txq # <<>>
  /\ Head(txq).kind = "add"
  /\ rows' = Append(rows, Head(txq).item)
  /\ txq' = Tail(txq)
  /\ UNCHANGED <<queueType, memq, dbOpen, dbOperationQueue, nextDBOperationPromise,
                 nextItemPromise, proc, handed, loopVars, enqCount>>

\* request.onsuccess of openCursor with a row: objectStore.delete(cursor.key) is
\* issued within the same transaction.
StoreCursorFound ==
  /\ UNCHANGED loVars
  /\ txq # <<>>
  /\ Head(txq).kind = "cursor"
  /\ rows # <<>>
  /\ txq' = <<[kind |-> "delete", item |-> CursorRow(rows)]>> \o Tail(txq)
  /\ UNCHANGED <<queueType, memq, dbOpen, dbOperationQueue, nextDBOperationPromise,
                 nextItemPromise, proc, handed, rows, loopVars, enqCount>>

\* request.onsuccess of openCursor without a row: the dequeue parks its resolver.
StoreCursorEmpty ==
  /\ UNCHANGED loVars
  /\ txq # <<>>
  /\ Head(txq).kind = "cursor"
  /\ rows = <<>>
  /\ nextItemPromise' = TRUE
  /\ txq' = Tail(txq)
  /\ UNCHANGED <<queueType, memq, dbOpen, dbOperationQueue, nextDBOperationPromise,
                 proc, handed, rows, loopVars, enqCount>>

\* deleteRequest.onsuccess: resolve(item.payload).
StoreDeleteSuccess ==
  /\ UNCHANGED loVars
  /\ txq # <<>>
  /\ Head(txq).kind = "delete"
  /\ rows' = RemoveRow(rows, Head(txq).item)
  /\ txq' = Tail(txq)
  /\ Deliver(Head(txq).item)
  /\ UNCHANGED <<queueType, memq, dbOpen, dbOperationQueue, nextDBOperationPromise,
                 nextItemPromise, proc, handed, enqCount>>

\* The pending dequeue() rejects: `await this.queue.dequeue()` stands outside the
\* try blocks of _startDequeueLoop, so the async function ends with a rejection.
Reject ==
  /\ pc = "dequeue"
  /\ pc' = "rejected"
  /\ UNCHANGED <<run, item, received, onErrors, initOutcome, shouldOutcome, shouldCalls,
                 dequeueCalls, loopsStarted, onceThrows, startCalls, preCount>>

\* request.onerror of objectStore.add: the error is logged; the row is not written.
StoreAddError ==
  /\ UNCHANGED loVars
  /\ txq # <<>>
  /\ Head(txq).kind = "add"
  /\ txq' = Tail(txq)
  /\ UNCHANGED <<queueType, memq, dbOpen, dbOperationQueue, nextDBOperationPromise,
                 nextItemPromise, proc, handed, rows, loopVars, enqCount>>

\* request.onerror of openCursor: reject(request.error).
StoreCursorError ==
  /\ UNCHANGED loVars
  /\ txq # <<>>
  /\ Head(txq).kind = "cursor"
  /\ txq' = Tail(txq)
  /\ Reject
  /\ UNCHANGED <<queueType, memq, dbOpen, dbOperationQueue, nextDBOperationPromise,
                 nextItemPromise, proc, handed, rows, enqCount>>

\* deleteRequest.onerror: reject(deleteRequest.error); the row stays.
StoreDeleteError ==
  /\ UNCHANGED loVars
  /\ txq # <<>>
  /\ Head(txq).kind = "delete"
  /\ txq' = Tail(txq)
  /\ Reject
  /\ UNCHANGED <<queueType, memq, dbOpen, dbOperationQueue, nextDBOperationPromise,
                 nextItemPromise, proc, handed, rows, enqCount>>

\* ------------------------------------------------------------- queue.ts
\* Queue.enqueue(item): this.queue.enqueue(item)
BackendEnqueue(it) ==
  IF queueType = IN_MEMORY THEN MemEnqueue(it) ELSE IdbEnqueue(it)

\* this.queue.dequeue(): the in-memory backend changes nothing until an item is there.
BackendDequeue ==
  IF queueType = IN_MEMORY THEN UNCHANGED backendVars ELSE IdbDequeue

QueueEnqueue(it) ==
  /\ enqCount' = enqCount + 1
  /\ BackendEnqueue(it)

Enqueue ==
  /\ enqCount < MaxItems
  /\ QueueEnqueue(enqCount + 1)
  /\ firstEnq' = IF enqCount > 0 THEN firstEnq
                 ELSE IF dequeueCalls = 0 THEN "before" ELSE "after"
  /\ UNCHANGED <<loopVars, loCore, writes, resetWrites, deadline, envVars, mergeVars>>

\* startDequeueLoop = util.once(_startDequeueLoop): runs up to `await initialize()`.
QueueStartDequeueLoop ==
  /\ startCalls' = startCalls + 1
  /\ run' = once(run).run
  /\ IF once(run).call
       THEN /\ loopsStarted' = loopsStarted + 1
            /\ pc' = "init"
            /\ preCount' = IF preCount = -1 THEN enqCount ELSE preCount
            /\ UNCHANGED onceThrows
       ELSE /\ onceThrows' = onceThrows + 1
            /\ UNCHANGED <<loopsStarted, pc, preCount>>
  /\ UNCHANGED <<item, received, onErrors, initOutcome, shouldOutcome, shouldCalls,
                 dequeueCalls, backendVars, enqCount>>

StartDequeueLoop ==
  /\ startCalls < MaxStarts
  /\ QueueStartDequeueLoop
  /\ UNCHANGED loVars

Outcomes == {"true", "false", "raise"}

\* `if (!await initialize()) throw ...` inside try: false and a raised fault both stop.
InitStopsOnRaiseOnly(r) == r = "raise"
InitStops(r) == r # "true"

\* `if (!await shouldDequeue()) throw ...` inside try.
ShouldStopsOnRaiseOnly(r) == r = "raise"
ShouldStops(r) == r # "true"

\* initialize() settles with r.
LoopInitialize(r) ==
  /\ pc = "init"
  /\ initOutcome' = r
  /\ IF InitStops(r)
       THEN /\ onErrors' = Append(onErrors, "init")
            /\ pc' = "stopped"
            /\ UNCHANGED shouldCalls
       ELSE /\ pc' = "should"
            /\ shouldCalls' = shouldCalls + 1
            /\ UNCHANGED onErrors
  /\ UNCHANGED <<run, item, received, shouldOutcome, dequeueCalls, loopsStarted,
                 onceThrows, startCalls, preCount, backendVars, enqCount>>

\* shouldDequeue() settles with r; on true the loop calls this.queue.dequeue().
LoopShouldDequeue(r) ==
  /\ pc = "should"
  /\ shouldOutcome' = r
  /\ IF ShouldStops(r)
       THEN /\ onErrors' = Append(onErrors, "should")
            /\ pc' = "stopped"
            /\ UNCHANGED <<dequeueCalls, backendVars>>
       ELSE /\ pc' = "dequeue"
            /\ dequeueCalls' = dequeueCalls + 1
            /\ BackendDequeue
            /\ UNCHANGED onErrors
  /\ UNCHANGED <<run, item, received, initOutcome, shouldCalls, loopsStarted,
                 onceThrows, startCalls, preCount, enqCount>>

\* Where the loop goes after onDequeue raised: the catch reports and the while
\* loop goes on to the next shouldDequeue().
AfterFaultStop(it) == [pc |-> "stopped", requeue |-> FALSE]
AfterFaultRetry(it) == [pc |-> "should", requeue |-> TRUE]
AfterFault(it) == [pc |-> "should", requeue |-> FALSE]

\* onDequeue(item) settles: o = "true" (returned) or "raise".
LoopOnDequeue(o) ==
  /\ pc = "onDequeue"
  /\ item' = 0
  /\ IF o = "raise"
       THEN /\ onErrors' = Append(onErrors, "item")
            /\ pc' = AfterFault(item).pc
            /\ IF AfterFault(item).requeue
                 THEN BackendEnqueue(item)
                 ELSE UNCHANGED backendVars
            /\ shouldCalls' = IF AfterFault(item).pc = "should"
                                THEN shouldCalls + 1 ELSE shouldCalls
       ELSE /\ pc' = "should"
            /\ shouldCalls' = shouldCalls + 1
            /\ UNCHANGED <<onErrors, backendVars>>
  /\ UNCHANGED <<run, received, initOutcome, shouldOutcome, dequeueCalls, loopsStarted,
                 onceThrows, startCalls, preCount, enqCount>>

\* The callbacks of a caller of the Queue: any outcome.
InitializeSettles == \E r \in Outcomes : LoopInitialize(r) /\ UNCHANGED loVars
ShouldDequeueSettles == \E r \in Outcomes : LoopShouldDequeue(r) /\ UNCHANGED loVars
OnDequeueSettles == \E o \in {"true", "raise"} : LoopOnDequeue(o) /\ UNCHANGED loVars

\* ============================================================ loEvent.ts
NSinks == 2
MaxLocks == 2
MaxGo == 1
MaxEvents == 2
MaxFaults == 1
MaxBlocks == 1
MaxInits == 2

Sinks == 1..NSinks

NOT_STARTED == "NOT_STARTED"
IN_PROGRESS == "IN_PROGRESS"
LOGGERS_READY == "LOGGERS_READY"
READY == "READY"
ERROR == "ERROR"

TRANSMIT == "TRANSMIT"
MAINTAIN == "MAINTAIN"
DROP == "DROP"
EVENT_ACTION == {TRANSMIT, MAINTAIN, DROP}

\* An expiration: null, TIME_LIMIT.PERMANENT, or a timestamp.
NullExpiration == [k |-> "null", t |-> 0]
Permanent == [k |-> "permanent", t |-> 0]
At(t) == [k |-> "at", t |-> t]

\* DEFAULTS of disabler.ts
DEFAULTS == [action |-> TRANSMIT, expiration |-> NullExpiration]
NoRecord == [action |-> "none", expiration |-> NullExpiration]

\* -------------------------------------------------- JSON objects (util.ts)
\* An object is the set of its leaves <<path, value>>, a path being the
\* sequence of keys from the root.
KeysOf(d) == {e[1][1] : e \in d}
Sub(d, k) == {<<Tail(e[1]), e[2]>> : e \in {x \in d : x[1][1] = k}}
Under(k, d) == {<< <<k>> \o e[1], e[2] >> : e \in d}
\* typeof d[k] === 'object' && d[k] !== null
IsObject(d, k) == \E e \in d : e[1][1] = k /\ Len(e[1]) > 1

\* mergeDictionary(target, source): keys of source are merged into target key by
\* key when both values are objects, and assigned otherwise.
RECURSIVE mergeDictionary(_, _)
mergeDictionary(target, source) ==
  {e \in target : e[1][1] \notin KeysOf(source)}
    \cup UNION {IF k \in KeysOf(target) /\ IsObject(target, k) /\ IsObject(source, k)
                  THEN Under(k, mergeDictionary(Sub(target, k), Sub(source, k)))
                  ELSE Under(k, Sub(source, k)) : k \in KeysOf(source)}

\* mergeMetadata(inputList): the dictionaries merged in list order into {}.
RECURSIVE mergeMetadata(_)
mergeMetadata(inputList) ==
  IF inputList = <<>> THEN {}
  ELSE mergeDictionary(mergeMetadata(SubSeq(inputList, 1, Len(inputList) - 1)),
                       inputList[Len(inputList)])

Leaf(k, v) == << <<k>>, v >>
Nested(k, j, v) == << <<k, j>>, v >>

\* An array under key k: the object whose keys are the indices "0", "1", ...
\* (typeof array === 'object', and `for (const key in array)` gives them).
Indices == <<"0", "1">>
Array(k, elements) == {Nested(k, Indices[i], elements[i]) : i \in 1..Len(elements)}
IsArray(d, k) ==
  /\ IsObject(d, k)
  /\ \A e \in d : e[1][1] = k => Len(e[1]) = 2 /\ \E i \in 1..Len(Indices) : e[1][2] = Indices[i]

\* The dictionaries mergeDictionary is applied to: with one key, "k", that is
\* absent or holds a string, an array of one or two strings, or an object.
Elements == {"p", "q"}
Dictionaries ==
  {{}} \cup {{Leaf("k", v)} : v \in {"x", "y"}}
       \cup {Array("k", <<a>>) : a \in Elements}
       \cup {Array("k", <<a, b>>) : a \in Elements, b \in Elements}
       \cup {{Nested("k", j, "x")} : j \in {"i", "j"}}
Unmerged == {Leaf("unmerged", "")}

\* mergeDictionary(target, source) applied to a pair of dictionaries.
MergeDictionary ==
  /\ merged = Unmerged
  /\ merged' = mergeDictionary(mergeTarget, mergeSource)
  /\ UNCHANGED <<mergeTarget, mergeSource, probeVars, envVars, loCore, backendVars, loopVars,
                 enqCount>>

\* init(source, version, ...)
SourceValue == "S"
VersionValue == "V"
SourceVersion == {Leaf("source", SourceValue), Leaf("version", VersionValue)}

\* The argument lists lockFields is called with.
FragmentLists ==
  { << {Leaf("postauth_type", "t")}, {Nested("info", "a", "x")} >>,
    << {Nested("info", "b", "y"), Leaf("source", "X")} >>,
    << {Leaf("info", "z")} >> }

\* options.metadata: one task, whose result is compiled under its name.
MetadataTasks == {"browserInfo"}
TaskResult(name) == {Nested(name, "agent", "ua")}

\* ------------------------------------------------------ the promise chain
NoStep == [kind |-> "none", tag |-> "", data |-> <<>>]
StepOf(kind, tag, data) == [kind |-> kind, tag |-> tag, data |-> data]

\* currentState = currentState.then(f): f is appended behind the steps pending.
ThenFirst(ch, st) == <<st>> \o ch
Then(ch, st) == Append(ch, st)

LockTag(n) == <<"L", n>>
SVTag == <<"SV", 0>>
MDTag == <<"MD", 0>>

\* A public call, with the fragments it was given.
Call(c, data) == [c |-> c, data |-> data]
LockCalls == {i \in 1..Len(calls) : calls[i].c = "lockFields"}
GoCalls == {i \in 1..Len(calls) : calls[i].c = "go"}

\* --------------------------------------------------------- disabler.ts
\* storeEvents()
streamEvents == action = TRANSMIT
storeEvents == action # DROP

\* BlockError(message, timeLimit, action) as raised by a sink.
BlockErrorsOf(limits) == {[action |-> a, timeLimit |-> l] : a \in EVENT_ACTION, l \in limits}
BlockErrors == BlockErrorsOf({-1, 1})

\* Two durations a server may send as time_limit.
TimeLimits == {1, 2}

\* browserStorage.ts: the storage backends. thunkStorage keeps the object it is
\* given; the localStorage wrapper stores String(value), which for an object is
\* "[object Object]", a string whose .action and .expiration are undefined.
THUNK_STORAGE == "thunkStorage"
LOCAL_STORAGE == "localStorage"
StorageKinds == {THUNK_STORAGE, LOCAL_STORAGE}
Undefined == [k |-> "undefined", t |-> 0]
ObjectString == [action |-> "undefined", expiration |-> Undefined]
StorageSet(kind, value) == IF kind = LOCAL_STORAGE THEN ObjectString ELSE value

\* An init() that takes no expiration from storage.
ExpirationDropped(e) == DEFAULTS.expiration

\* state.action || DEFAULTS.action, state.expiration || DEFAULTS.expiration
ActionOrDefault(a) == IF a = "undefined" THEN DEFAULTS.action ELSE a
ExpirationOrDefault(e) == IF e.k \in {"undefined", "null"} THEN DEFAULTS.expiration ELSE e

\* The state disabler.init sets from what storage.get gives it:
\* state = storedState[DISABLER_STORE] || {}
Loaded(record) ==
  IF record = NoRecord THEN DEFAULTS
  ELSE [action |-> ActionOrDefault(record.action),
        expiration |-> ExpirationOrDefault(record.expiration)]

\* handleBlockError(error): the state after it, at time t.
handleBlockError(error, t) ==
  [action |-> error.action,
   expiration |-> IF error.timeLimit = -1 THEN Permanent ELSE At(t + error.timeLimit)]

\* ------------------------------------------------------------ public calls
\* init(source, version, loggers, options) with useDisabler: constructs the queue,
\* appends disabler.init and initializeLoggers.
LoInit ==
  /\ calls = <<>>
  /\ calls' = <<Call("init", <<>>)>>
  /\ initialized' = IN_PROGRESS
  /\ chain' = Then(Then(chain, StepOf("disablerInit", <<"", 0>>, <<>>)),
                   StepOf("initializeLoggers", <<"", 0>>, <<>>))
  /\ UNCHANGED <<step, rejected, pend, sinkVars, disablerVars, logCount, now, wsVars, auxVars,
                 backendVars, loopVars, enqCount>>

\* init() called again, before go() and with no event logged: the queue it
\* constructs replaces one that is still empty and idle.
InitCalls == {i \in 1..Len(calls) : calls[i].c = "init"}
LoInitAgain ==
  /\ calls # <<>>
  /\ Cardinality(InitCalls) < MaxInits
  /\ GoCalls = {}
  /\ logCount = 0
  /\ calls' = Append(calls, Call("init", <<>>))
  /\ initialized' = IN_PROGRESS
  /\ chain' = Then(Then(chain, StepOf("disablerInit", <<"", 0>>, <<>>)),
                   StepOf("initializeLoggers", <<"", 0>>, <<>>))
  /\ memq' = <<>>
  /\ dbOpen' = FALSE
  /\ dbOperationQueue' = <<>>
  /\ nextDBOperationPromise' = FALSE
  /\ nextItemPromise' = FALSE
  /\ proc' = "off"
  /\ handed' = NoOp
  /\ txq' = <<>>
  /\ UNCHANGED <<queueType, rows, step, rejected, pend, sinkVars, disablerVars, logCount, now, wsVars, auxVars,
                 loopVars, enqCount>>

\* lockFields(data), with data one of lists
LockFieldsWith(lists) ==
  /\ calls # <<>>
  /\ Cardinality(LockCalls) < MaxLocks
  /\ \E data \in lists :
       /\ chain' = Then(chain, StepOf("lockFields", LockTag(Cardinality(LockCalls) + 1), data))
       /\ calls' = Append(calls, Call("lockFields", data))
  /\ UNCHANGED <<initialized, step, rejected, pend, sinkVars, disablerVars, logCount, now, wsVars, auxVars,
                 backendVars, loopVars, enqCount>>

LockFields == LockFieldsWith(FragmentLists)

\* lockFields called between init() and go()
PreauthLists == { << {Leaf("preauth_type", "t")} >> }
LockFieldsPreauth == GoCalls = {} /\ LockFieldsWith(PreauthLists)

\* go(): lockFields([{source, version}]), then compile and lock the metadata, then
\* start the dequeue loop.
Go ==
  /\ calls # <<>>
  /\ Cardinality(GoCalls) < MaxGo
  /\ chain' = Then(Then(Then(chain, StepOf("lockFields", SVTag, <<SourceVersion>>)),
                        StepOf("compileMetadata", MDTag, <<>>)),
                   StepOf("start", <<"", 0>>, <<>>))
  /\ calls' = Append(calls, Call("go", <<>>))
  /\ UNCHANGED <<initialized, step, rejected, pend, sinkVars, disablerVars, logCount, now, wsVars, auxVars,
                 backendVars, loopVars, enqCount>>

\* go() as an application calls it: once.
GoOnce == GoCalls = {} /\ Go

\* logEvent(eventType, event): dropped unless storeEvents(), else enqueued.
LogEvent ==
  /\ calls # <<>>
  /\ logCount < MaxEvents
  /\ logCount' = logCount + 1
  /\ IF storeEvents
       THEN QueueEnqueue(logCount + 1)
       ELSE UNCHANGED <<backendVars, enqCount>>
  /\ UNCHANGED <<pipeVars, sinkVars, disablerVars, now, wsVars, writes, firstEnq, resetWrites, deadline,
                 envVars, mergeVars, loopVars>>

\* ------------------------------------------------------- pipeline steps
CanRunWhilePending(kind) == ~rejected /\ chain # <<>> /\ Head(chain).kind = kind
CanRun(kind) ==
  /\ step = NoStep
  /\ ~rejected
  /\ chain # <<>>
  /\ Head(chain).kind = kind

\* disabler.init(): storage.get(DISABLER_STORE, callback) is issued.
RunDisablerInit ==
  /\ CanRun("disablerInit")
  /\ step' = Head(chain)
  /\ chain' = Tail(chain)
  /\ UNCHANGED <<initialized, rejected, pend, calls, sinkVars, disablerVars, logCount, now, wsVars, auxVars,
                 backendVars, loopVars, enqCount>>

\* The storage callback of disabler.init: state.action || DEFAULTS.action, etc.
DisablerInitDone ==
  /\ step.kind = "disablerInit"
  /\ action' = Loaded(stored).action
  /\ expiration' = Loaded(stored).expiration
  /\ step' = NoStep
  /\ UNCHANGED <<initialized, chain, rejected, pend, calls, sinkVars, stored, logCount, now, wsVars, auxVars,
                 backendVars, loopVars, enqCount>>

\* What the hook of each sink does when called: returns, returns a promise that is
\* still pending, or throws.
HookOutcomes == [Sinks -> {"done", "pending", "throw"}]
Throws(o) == {s \in Sinks : o[s] = "throw"}
\* The sinks a map over loggersEnabled reaches: those up to the first that throws.
Reached(o) == {s \in Sinks : \A r \in Throws(o) : s <= r}
Called(o) == {s \in Reached(o) : o[s] # "throw"}

\* initializeLoggers(): logger.init() of every sink, then await Promise.all.
RunInitializeLoggers ==
  /\ CanRun("initializeLoggers")
  /\ chain' = Tail(chain)
  /\ \E o \in HookOutcomes :
       /\ faults + Cardinality(Throws(o)) <= MaxFaults
       /\ faults' = faults + Cardinality(Throws(o))
       /\ IF Throws(o) # {}
            THEN /\ rejected' = TRUE
                 /\ UNCHANGED <<step, pend, initialized>>
            ELSE /\ pend' = {s \in Sinks : o[s] = "pending"}
                 /\ IF pend' = {}
                      THEN initialized' = LOGGERS_READY /\ UNCHANGED step
                      ELSE step' = Head(chain) /\ UNCHANGED initialized
                 /\ UNCHANGED rejected
  /\ UNCHANGED <<calls, sinkEvents, sinkTags, lockState, lastFields, blocks, fanout, disablerVars,
                 logCount, now, wsVars, auxVars, backendVars, loopVars, enqCount>>

\* A pending init() promise settles; Promise.all resolves with the last one and
\* rejects with the first rejection.
SinkInitSettles ==
  /\ step.kind = "initializeLoggers"
  /\ \E s \in pend : \E ok \in BOOLEAN :
       IF ok
         THEN /\ pend' = pend \ {s}
              /\ IF pend' = {}
                   THEN initialized' = LOGGERS_READY /\ step' = NoStep
                   ELSE UNCHANGED <<initialized, step>>
              /\ UNCHANGED faults
         ELSE /\ faults < MaxFaults
              /\ faults' = faults + 1
              /\ pend' = {}
              /\ initialized' = ERROR
              /\ step' = NoStep
  /\ UNCHANGED <<chain, rejected, calls, sinkEvents, sinkTags, lockState, lastFields, blocks, fanout,
                 disablerVars, logCount, now, wsVars, auxVars, backendVars, loopVars, enqCount>>

\* wsLogData.setField(data): util.mergeDictionary(metadata, JSON.parse(data))
SetFieldAssign(state, fields) == fields
SetField(state, fields) == mergeDictionary(state, fields)

\* lockFieldsAsync(data): merge the fragments, call setField on every sink, then
\* await Promise.all.
LockFieldsAsync(tag, fields) ==
  /\ lastFields' = fields
  /\ \E o \in HookOutcomes :
       /\ faults + Cardinality(Throws(o)) <= MaxFaults
       /\ faults' = faults + Cardinality(Throws(o))
       /\ sinkTags' = [s \in Sinks |->
                         IF s \in Called(o) THEN Append(sinkTags[s], tag) ELSE sinkTags[s]]
       /\ lockState' = [s \in Sinks |->
                          IF s \in Called(o) THEN SetField(lockState[s], fields)
                          ELSE lockState[s]]
       /\ IF Throws(o) # {}
            THEN /\ rejected' = TRUE
                 /\ UNCHANGED <<step, pend>>
            ELSE /\ pend' = {s \in Sinks : o[s] = "pending"}
                 /\ step' = IF pend' = {} THEN NoStep ELSE Head(chain)
                 /\ UNCHANGED rejected

RunLockFields ==
  /\ CanRun("lockFields")
  /\ chain' = Tail(chain)
  /\ LockFieldsAsync(Head(chain).tag, mergeMetadata(Head(chain).data))
  /\ UNCHANGED <<initialized, calls, sinkEvents, blocks, fanout, disablerVars, logCount, now, wsVars, auxVars,
                 backendVars, loopVars, enqCount>>

\* compileMetadata(pendingMetadata): the tasks that fail are dropped; then
\* lockFieldsAsync(results).
RunCompileMetadata ==
  /\ CanRun("compileMetadata")
  /\ chain' = Tail(chain)
  /\ \E done \in SUBSET MetadataTasks :
       LockFieldsAsync(Head(chain).tag, UNION {TaskResult(n) : n \in done})
  /\ UNCHANGED <<initialized, calls, sinkEvents, blocks, fanout, disablerVars, logCount, now, wsVars, auxVars,
                 backendVars, loopVars, enqCount>>

\* A pending setField() promise settles.
SetFieldSettles ==
  /\ step.kind \in {"lockFields", "compileMetadata"}
  /\ \E s \in pend : \E ok \in BOOLEAN :
       IF ok
         THEN /\ pend' = pend \ {s}
              /\ step' = IF pend' = {} THEN NoStep ELSE step
              /\ UNCHANGED <<faults, rejected>>
         ELSE /\ faults < MaxFaults
              /\ faults' = faults + 1
              /\ pend' = {}
              /\ step' = NoStep
              /\ rejected' = TRUE
  /\ UNCHANGED <<initialized, chain, calls, sinkEvents, sinkTags, lockState, lastFields,
                 blocks, fanout, disablerVars, logCount, now, wsVars, auxVars, backendVars, loopVars, enqCount>>

\* if (initialized === INIT_STATES.ERROR) return;
StartAlways == TRUE
StartAllowed == initialized # ERROR

\* The last step of go(): unless ERROR, set READY and start the dequeue loop.
RunStart ==
  /\ CanRun("start")
  /\ chain' = Tail(chain)
  /\ IF ~StartAllowed
       THEN UNCHANGED <<initialized, rejected, loopVars>>
       ELSE /\ initialized' = READY
            /\ QueueStartDequeueLoop
            /\ rejected' = once(run).throw
  /\ UNCHANGED <<step, pend, calls, sinkVars, disablerVars, logCount, now, wsVars, auxVars,
                 backendVars, enqCount>>

\* ------------------------------------------- the main loop's callbacks
\* initialize: isInitialized()
isInitialized == IF initialized = READY THEN "true" ELSE "false"

LoIsInitialized ==
  /\ LoopInitialize(isInitialized)
  /\ UNCHANGED loVars

\* The test retry() makes on the record storage.get gives it: !currentValue ||
\* currentValue.action !== action || currentValue.expiration !== expiration
ResetDiffers(currentValue, state) ==
  \/ currentValue = NoRecord
  \/ currentValue.action # state.action
  \/ currentValue.expiration # state.expiration

\* shouldDequeue: disabler.retry(). False when the expiration is permanent;
\* otherwise it returns once the expiration has passed, resets the state and
\* writes the reset to storage when the stored record differs.
Retry ==
  /\ pc = "should"
  /\ IF expiration = Permanent
       THEN /\ LoopShouldDequeue("false")
            /\ UNCHANGED <<disablerVars, resetWrites>>
       ELSE /\ expiration.k = "at" => now >= expiration.t
            /\ action' = DEFAULTS.action
            /\ expiration' = DEFAULTS.expiration
            /\ IF ResetDiffers(stored, DEFAULTS)
                 THEN /\ stored' = StorageSet(storageKind, DEFAULTS)
                      /\ resetWrites' = resetWrites + 1
                 ELSE UNCHANGED <<stored, resetWrites>>
            /\ LoopShouldDequeue("true")
  /\ UNCHANGED <<pipeVars, sinkVars, logCount, now, wsVars, writes, firstEnq, deadline, envVars, mergeVars>>

\* What a sink does with an event: accepts it, raises a BlockError, or raises
\* another fault.
SinkResultsOf(errors) ==
  {[r |-> "ok", error |-> [action |-> TRANSMIT, timeLimit |-> 0]],
   [r |-> "fault", error |-> [action |-> TRANSMIT, timeLimit |-> 0]]}
    \cup {[r |-> "block", error |-> e] : e \in errors}
SinkResults == SinkResultsOf(BlockErrors)

\* A sink sendEvent did not call.
NotCalled == "skipped"

\* A sendEvent that stops at the first sink that raises anything, and one that
\* stops at none.
OfferedUntilRaise(o) == {s \in Sinks : \A r \in Sinks : r < s => o[r].r = "ok"}
OfferedAll(o) == Sinks

\* The sinks sendEvent reaches: all up to the first that raises another fault.
Offered(o) == {s \in Sinks : \A r \in Sinks : r < s => o[r].r # "fault"}
Blocking(o) == {s \in Offered(o) : o[s].r = "block"}
LastBlocking(o) == CHOOSE s \in Blocking(o) : \A r \in Blocking(o) : r <= s

\* What a fan-out that raised BlockErrors is remembered by: the event, and
\* whether one of the errors had the permanent time limit.
Raised(o, it) ==
  IF Blocking(o) = {} THEN <<>>
  ELSE <<[item |-> it, permanent |-> \E s \in Blocking(o) : o[s].error.timeLimit = -1]>>

\* The latest Date.now() + timeLimit among the timed BlockErrors of a fan-out at
\* time t and those before it.
Max(a, b) == IF a > b THEN a ELSE b
RECURSIVE LatestOf(_, _, _)
LatestOf(o, t, ss) ==
  IF ss = {} THEN 0
  ELSE LET s == CHOOSE x \in ss : TRUE
       IN Max(IF o[s].error.timeLimit > 0 THEN t + o[s].error.timeLimit ELSE 0,
              LatestOf(o, t, ss \ {s}))

\* onDequeue: sendEvent(event), the fan-out over loggersEnabled, with sinks that
\* do one of `results`; `observed` tells whether `deadline` is kept.
SendEventOf(results, observed) ==
  /\ pc = "onDequeue"
  /\ \E o \in [Sinks -> results] :
       /\ Cardinality({s \in Offered(o) : o[s].r = "fault"}) + faults <= MaxFaults
       /\ \A s \in Sinks \ Offered(o) : o[s].r = "ok"
       /\ Blocking(o) # {} => Len(blocks) < MaxBlocks
       /\ faults' = faults + Cardinality({s \in Offered(o) : o[s].r = "fault"})
       /\ blocks' = blocks \o Raised(o, item)
       /\ fanout' = [s \in Sinks |-> IF s \in Offered(o) THEN o[s].r ELSE NotCalled]
       /\ sinkEvents' = [s \in Sinks |->
                           IF s \in Offered(o) /\ o[s].r = "ok"
                             THEN Append(sinkEvents[s], item) ELSE sinkEvents[s]]
       /\ IF Blocking(o) # {}
            THEN /\ action' = handleBlockError(o[LastBlocking(o)].error, now).action
                 /\ expiration' = handleBlockError(o[LastBlocking(o)].error, now).expiration
                 /\ stored' = StorageSet(storageKind,
                                         handleBlockError(o[LastBlocking(o)].error, now))
            ELSE UNCHANGED disablerVars
       /\ deadline' = IF observed THEN Max(deadline, LatestOf(o, now, Blocking(o)))
                                  ELSE deadline
       /\ LoopOnDequeue(IF \E s \in Offered(o) : o[s].r = "fault" THEN "raise" ELSE "true")
  /\ UNCHANGED <<pipeVars, sinkTags, lockState, lastFields, logCount, now, wsVars, writes,
                 firstEnq, resetWrites, envVars, mergeVars>>

SendEvent == SendEventOf(SinkResults, FALSE)

\* sendEvent(event) with sinks whose BlockErrors are timed, of either duration.
SendEventTimed == SendEventOf(SinkResultsOf(BlockErrorsOf(TimeLimits)), TRUE)

\* Time passes. Date.now() is read only to set and to await an expiration, so
\* the clock is advanced only while an expiration lies ahead.
Tick ==
  /\ expiration.k = "at"
  /\ now < expiration.t
  /\ now' = now + 1
  /\ UNCHANGED <<pipeVars, sinkVars, disablerVars, logCount, wsVars, auxVars, backendVars, loopVars,
                 enqCount>>

\* The orchestrator before init() is called.
LoIdle ==
  /\ initialized = NOT_STARTED
  /\ chain = <<>>
  /\ step = NoStep
  /\ rejected = FALSE
  /\ pend = {}
  /\ sinkEvents = [s \in Sinks |-> <<>>]
  /\ sinkTags = [s \in Sinks |-> <<>>]
  /\ lockState = [s \in Sinks |-> {}]
  /\ lastFields = {}
  /\ calls = <<>>
  /\ logCount = 0
  /\ faults = 0
  /\ blocks = <<>>
  /\ fanout = [s \in Sinks |-> NotCalled]
  /\ action = DEFAULTS.action
  /\ expiration = DEFAULTS.expiration
  /\ now = 0

\* ===================================================== websocketLogger.ts
MaxFailures == 12

\* calculateExponentialBackoff(n): Math.min(1000 * Math.pow(2, n), 1000 * 60 * 15)
Min(a, b) == IF a < b THEN a ELSE b
calculateBackoffUncapped(n) == 1000 * 2^n
calculateExponentialBackoff(n) == Min(1000 * 2^n, 1000 * 60 * 15)

\* What the websocket sink leaves alone.
wsQuiet == <<backendVars, loopVars, enqCount, pipeVars, logCount, auxVars,
             sinkEvents, sinkTags, lastFields, faults, blocks, fanout, backoffN, backoffMs>>
wsRest == <<wsQuiet, disablerVars, now, blockVars>>

MaxStale == 1
MaxWsq == 2
MaxReceipts == 2
MaxHandled == 2
MaxResets == 3

\* let blockerror = null
NoBlock == [action |-> "null", timeLimit |-> 0]

\* The sockets: 0 is `socket`, 1..Len(stale) are the earlier ones. A socket is
\* "connecting", "open", "closing" (close() was called on it), "erred" (its
\* error event was fired, its close event is still to come) or "closed".
SocketIds == 0..Len(stale)
StateOf(x) == IF x = 0 THEN sock ELSE stale[x]
Without(q, x) == [i \in 1..(Len(q) - 1) |-> IF i < x THEN q[i] ELSE q[i + 1]]
After(x, v) ==
  [sock |-> IF x = 0 THEN v ELSE sock,
   stale |-> IF x = 0 THEN stale
             ELSE IF v = "closed" THEN Without(stale, x) ELSE [stale EXCEPT ![x] = v]]

\* newWebsocket(): socket = new WSLibrary(serverUrl), and wsFailureResolve and
\* wsConnectedResolve are replaced by the resolvers of the new attempt. The
\* socket `socket` referred to lives on with its handlers.
NewWebsocket(st) ==
  /\ sock' = "connecting"
  /\ stale' = IF st.sock \in {"connecting", "open", "closing", "erred"}
                THEN Append(st.stale, st.sock) ELSE st.stale
  /\ Len(stale') <= MaxStale

\* socket.send(item), as socketSend calls it: `first` tells whether it is the
\* first message since `socket` opened, and `metadata` whether the metadata
\* object had a key when it opened.
Message(kind, first) ==
  [kind |-> kind, ready |-> wsReady', state |-> sock', first |-> first # "no",
   metadata |-> first = "filled"]
NoMessage ==
  [kind |-> "none", ready |-> FALSE, state |-> "none", first |-> FALSE, metadata |-> FALSE]

\* queue.enqueue(data) on the transport queue, once `socket` is in the state that
\* makes `isFresh`: a dequeue() that is suspended resolves with the item and
\* socketSend is called with it.
TransportEnqueue(kind, isFresh) ==
  IF tpc = "dequeue"
    THEN /\ sent' = Message(kind, isFresh)
         /\ fresh' = "no"
         /\ tpc' = "should"
         /\ UNCHANGED wsq
    ELSE /\ wsq' = Append(wsq, kind)
         /\ Len(wsq') <= MaxWsq
         /\ fresh' = isFresh
         /\ UNCHANGED <<sent, tpc>>

\* prepareSocket(): if (Object.keys(metadata).length > 0) queue.enqueue(metadata)
prepareSocket(isFresh) ==
  IF lockState[1] # {}
    THEN TransportEnqueue("metadata", isFresh)
    ELSE fresh' = isFresh /\ UNCHANGED <<wsq, sent, tpc>>

\* wsLogData.init(): startWebsocketConnectionLoop() runs up to `await
\* newWebsocket()`, and queue.startDequeueLoop up to `await initialize()`.
WsInit ==
  /\ wsPc = "off"
  /\ wsPc' = "connect"
  /\ NewWebsocket([sock |-> sock, stale |-> stale])
  /\ tpc' = "initialize"
  /\ UNCHANGED <<failures, wsReady, wsDelay, wsq, sent, fresh, lockState, wsRest>>

\* The loop after `await newWebsocket()` gave false: failures++, then util.delay
\* of the backoff.
ConnectFails(st) ==
  /\ failures < MaxFailures
  /\ failures' = failures + 1
  /\ wsDelay' = calculateExponentialBackoff(failures')
  /\ wsPc' = "delay"
  /\ sock' = st.sock
  /\ stale' = st.stale
  /\ UNCHANGED wsReady

\* The loop after `await newWebsocket()` gave true: READY = true, failures = 0,
\* then `await socketClosed()`.
ConnectOpens(st) ==
  /\ wsReady' = TRUE
  /\ failures' = 0
  /\ wsPc' = "open"
  /\ sock' = st.sock
  /\ stale' = st.stale
  /\ UNCHANGED wsDelay

\* The loop after `await socketClosed()` returned: READY = false, and the next
\* iteration calls newWebsocket().
SocketCloses(st) ==
  /\ wsReady' = FALSE
  /\ wsPc' = "connect"
  /\ NewWebsocket(st)
  /\ UNCHANGED <<failures, wsDelay>>

\* No promise the loop awaits is settled.
LoopWaits(st) ==
  /\ sock' = st.sock
  /\ stale' = st.stale
  /\ UNCHANGED <<wsPc, failures, wsReady, wsDelay>>

\* wsConnectedResolve(true): settles the attempt the loop awaits, if it is pending.
ResolveConnected(st) == IF wsPc = "connect" THEN ConnectOpens(st) ELSE LoopWaits(st)

\* wsConnectedResolve(false); wsFailureResolve(): they settle the promises of the
\* attempt made last, whichever socket's handler calls them.
ResolveFailure(st) ==
  IF wsPc = "connect" THEN ConnectFails(st)
  ELSE IF wsPc = "open" THEN SocketCloses(st)
  ELSE LoopWaits(st)

\* socket.onopen of a socket: prepareSocket(); wsConnectedResolve(true)
SocketOpenEvent ==
  /\ UNCHANGED <<lockState, wsRest>>
  /\ \E x \in SocketIds :
       /\ StateOf(x) = "connecting"
       /\ ResolveConnected(After(x, "open"))
       /\ prepareSocket(IF x # 0 THEN fresh
                        ELSE IF lockState[1] # {} THEN "filled" ELSE "empty")

\* socket.onerror of a socket: wsConnectedResolve(false); wsFailureResolve().
\* The close event of the socket follows in a later step.
SocketErrorEvent ==
  /\ \E x \in SocketIds :
       /\ StateOf(x) \in {"connecting", "open", "closing"}
       /\ ResolveFailure(After(x, "erred"))
  /\ UNCHANGED <<wsq, tpc, sent, fresh, lockState, wsRest>>

\* socket.onclose of a socket: wsConnectedResolve(false); wsFailureResolve()
SocketCloseEvent ==
  /\ \E x \in SocketIds :
       /\ StateOf(x) \in {"connecting", "open", "closing", "erred"}
       /\ ResolveFailure(After(x, "closed"))
  /\ UNCHANGED <<wsq, tpc, sent, fresh, lockState, wsRest>>

\* The delay has passed: the next iteration calls newWebsocket().
DelayElapses ==
  /\ wsPc = "delay"
  /\ wsPc' = "connect"
  /\ NewWebsocket([sock |-> sock, stale |-> stale])
  /\ UNCHANGED <<failures, wsReady, wsDelay, wsq, tpc, sent, fresh, lockState, wsRest>>

\* waitForWSReady(), as initialize and as shouldDequeue of the transport queue:
\* util.backoff returns when it finds READY true (policy RETRY without a limit:
\* it never gives up). The loop then calls dequeue(), and socketSend with the
\* item if the queue holds one.
WaitForWSReady ==
  /\ tpc \in {"initialize", "should"}
  /\ wsReady
  /\ UNCHANGED <<wsPc, failures, wsReady, wsDelay, sock, stale, lockState, wsRest>>
  /\ IF wsq # <<>>
       THEN /\ sent' = Message(Head(wsq), fresh)
            /\ wsq' = Tail(wsq)
            /\ fresh' = "no"
            /\ tpc' = "should"
       ELSE /\ tpc' = "dequeue"
            /\ UNCHANGED <<wsq, sent, fresh>>

\* receiveMessage(event) with status 'blocklist', on a socket that is open:
\* blockerror = new disabler.BlockError(message, time_limit, action)
ReceiveMessage ==
  /\ \E x \in SocketIds : StateOf(x) = "open"
  /\ built < MaxReceipts
  /\ \E e \in BlockErrors : blockerror' = e
  /\ built' = built + 1
  /\ UNCHANGED <<wsPc, failures, wsReady, wsDelay, backoffN, backoffMs, sock, stale, wsq, tpc,
                 sent, fresh, handled, lockState, disablerVars, now, wsQuiet>>

\* A socket whose close() does nothing.
CloseNothing(state) == state

\* socket.close(): a socket that is connecting or open is closing from then on.
Close(state) == IF state \in {"connecting", "open"} THEN "closing" ELSE state

\* wsLogData(data), called by sendEvent in an iteration of the main loop, which
\* disabler.retry() lets start with the expiration reset. checkForBlockError():
\* with a blockerror kept, blockerror = null, socket.close(), and it is thrown to
\* sendEvent, which passes it to disabler.handleBlockError. Otherwise
\* queue.enqueue(data).
WsLogData ==
  /\ expiration = DEFAULTS.expiration
  /\ IF blockerror # NoBlock
       THEN /\ blockerror' = NoBlock
            /\ sock' = Close(sock)
            /\ handled' = handled + 1
            /\ action' = handleBlockError(blockerror, now).action
            /\ expiration' = handleBlockError(blockerror, now).expiration
            /\ stored' = StorageSet(storageKind, handleBlockError(blockerror, now))
            /\ UNCHANGED <<wsPc, failures, wsReady, wsDelay, stale, wsq, tpc, sent, fresh,
                           built, lockState, now, wsQuiet>>
       ELSE /\ UNCHANGED <<wsPc, failures, wsReady, wsDelay, sock, stale, lockState, wsRest>>
            /\ TransportEnqueue("event", fresh)

\* disabler.retry() as the main loop calls it before a dequeue: it returns true
\* once the expiration, if there is one, has passed, with the state reset (it
\* returns false, with nothing changed, when the expiration is permanent).
DisablerRetry ==
  /\ expiration # Permanent
  /\ now' = IF now < expiration.t THEN expiration.t ELSE now
  /\ action' = DEFAULTS.action
  /\ expiration' = DEFAULTS.expiration
  /\ IF ResetDiffers(stored, DEFAULTS)
       THEN /\ resetWrites < MaxResets
            /\ stored' = StorageSet(storageKind, DEFAULTS)
            /\ resetWrites' = resetWrites + 1
       ELSE UNCHANGED <<stored, resetWrites>>
  /\ UNCHANGED <<backendVars, loopVars, enqCount, pipeVars, sinkVars, logCount, wsVars,
                 writes, firstEnq, deadline, envVars, mergeVars>>

\* wsLogData.setField(data): util.mergeDictionary(metadata, JSON.parse(data));
\* queue.enqueue(data)
WsSetField ==
  /\ lockState' = [lockState EXCEPT ![1] = SetField(@, SourceVersion)]
  /\ UNCHANGED <<wsPc, failures, wsReady, wsDelay, sock, stale, wsRest>>
  /\ TransportEnqueue("fields", fresh)

\* calculateExponentialBackoff applied to an argument.
CalculateBackoff ==
  /\ backoffMs = -1
  /\ backoffMs' = calculateExponentialBackoff(backoffN)
  /\ UNCHANGED <<wsPc, failures, wsReady, wsDelay, backoffN, sock, stale, wsq, tpc, sent, fresh,
                 blockVars>>
  /\ UNCHANGED <<backendVars, loopVars, enqCount, pipeVars, sinkVars, disablerVars, logCount, now, auxVars>>

\* disabler.init() on its own: the storage callback sets the state.
DisablerInit ==
  /\ action' = Loaded(stored).action
  /\ expiration' = Loaded(stored).expiration
  /\ UNCHANGED <<stored, now, backendVars, loopVars, enqCount, pipeVars, sinkVars, logCount,
                 wsVars, auxVars>>

\* The page is loaded again: `let { action, expiration } = DEFAULTS`, with the
\* record in storage kept.
Reload ==
  /\ action' = DEFAULTS.action
  /\ expiration' = DEFAULTS.expiration
  /\ UNCHANGED <<stored, now, backendVars, loopVars, enqCount, pipeVars, sinkVars, logCount,
                 wsVars, auxVars>>

\* disabler.handleBlockError(error) on its own, with the BlockError of some sink.
HandleBlockError ==
  /\ handled < MaxHandled
  /\ handled' = handled + 1
  /\ \E e \in BlockErrors :
       /\ action' = handleBlockError(e, now).action
       /\ expiration' = handleBlockError(e, now).expiration
       /\ stored' = StorageSet(storageKind, handleBlockError(e, now))
  /\ UNCHANGED <<now, backendVars, loopVars, enqCount, pipeVars, sinkVars, logCount, auxVars,
                 wsPc, failures, wsReady, wsDelay, backoffN, backoffMs, sock, stale, wsq, tpc,
                 sent, fresh, blockerror, built>>

\* The sockets and the transport queue of the websocket sink before init().
SocketIdle ==
  /\ sock = "none"
  /\ stale = <<>>
  /\ wsq = <<>>
  /\ tpc = "off"
  /\ sent = NoMessage
  /\ fresh = "no"
  /\ blockerror = NoBlock
  /\ built = 0
  /\ handled = 0

\* The websocket sink before init() is called.
WsIdle ==
  /\ wsPc = "off"
  /\ failures = 0
  /\ wsReady = FALSE
  /\ wsDelay = 0
  /\ backoffN = 0
  /\ backoffMs = -1
  /\ SocketIdle

\* ------------------------------------------------------------ observers
Range(s) == {s[i] : i \in 1..Len(s)}

\* The items are delivered in enqueue order with none skipped: item k is the k-th.
InOrder(s) == \A i \in 1..Len(s) : s[i] = i

NoDuplicates(s) == \A i, j \in 1..Len(s) : s[i] = s[j] => i = j

\* The items the backend holds, wherever they are on their way to the store.
Stored ==
  Range(memq) \cup Range(rows)
    \cup {op.payload : op \in {o \in Range(dbOperationQueue) \cup {handed} : o.operation = ENQUEUE}}
    \cup {t.item : t \in {u \in Range(txq) : u.kind = "add"}}

\* The loop is suspended on dequeue() and the backend has nothing left in progress.
Drained ==
  /\ pc = "dequeue"
  /\ IF queueType = IN_MEMORY
       THEN memq = <<>>
       ELSE nextItemPromise /\ dbOperationQueue = <<>> /\ handed = NoOp /\ txq = <<>>

Stopped(o) == o \in {"false", "raise"}

\* --------------------------------------------------------------- claims
\* C1: items enqueued before startDequeueLoop is called are passed to onDequeue
\* in exactly the enqueue order, each once; when the loop is again suspended on
\* an empty queue every one of them has been passed.
C1_FifoBeforeStart ==
  (preCount # -1 /\ enqCount = preCount) =>
     /\ InOrder(received)
     /\ Drained => Len(received) = enqCount

C1_Witness ==
  /\ queueType = PERSISTENT
  /\ preCount = MaxItems
  /\ Drained
  /\ Len(received) = MaxItems

\* C2: when the loop is started on an empty queue and items are enqueued
\* afterwards, onDequeue receives them in enqueue order and no item is delivered
\* while an earlier-enqueued item is still waiting in the queue.
C2_LateEnqueue ==
  preCount = 0 =>
     /\ InOrder(received)
     /\ \A k \in Range(received) : \A j \in 1..(k - 1) : j \notin Stored

\* C3: with the Persistent backend the values resolved by dequeue are the
\* enqueued items in the same order, none lost and none duplicated, under every
\* interleaving of enqueue, dequeue and store completions.
C3_PersistentFifo ==
  queueType = PERSISTENT =>
     /\ InOrder(received)
     /\ Drained => Len(received) = enqCount

\* C5: startDequeueLoop runs the loop on its first call only; every later call
\* raises to its caller and starts no second consumer.
C5_StartOnce ==
  /\ loopsStarted = (IF startCalls = 0 THEN 0 ELSE 1)
  /\ onceThrows = (IF startCalls = 0 THEN 0 ELSE startCalls - 1)
  /\ run = (startCalls > 0)

C5_Witness == startCalls = MaxStarts /\ onceThrows = MaxStarts - 1 /\ loopsStarted = 1

\* C6: when initialize() returns false or raises, onError is called once and the
\* loop has terminated: shouldDequeue is never called, nothing is dequeued and
\* onDequeue is never invoked, whatever is enqueued before or afterwards.
C6_InitFailureStops ==
  Stopped(initOutcome) =>
     /\ pc = "stopped"
     /\ onErrors = <<"init">>
     /\ shouldCalls = 0
     /\ dequeueCalls = 0
     /\ received = <<>>

C6_Witness ==
  /\ initOutcome = "false"
  /\ preCount = 1
  /\ enqCount = MaxItems
  /\ Stored = 1..MaxItems

\* C7: when shouldDequeue() returns false or raises, the loop reports through
\* onError and stops for good: from then on onDequeue is not invoked, dequeue is
\* not called and no item leaves the queue.
C7_ShouldDequeueStops ==
  [][Stopped(shouldOutcome') =>
       /\ pc' = "stopped"
       /\ onErrors' # <<>>
       /\ onErrors'[Len(onErrors')] = "should"
       /\ Stopped(shouldOutcome) =>
            /\ received' = received
            /\ dequeueCalls' = dequeueCalls
            /\ shouldCalls' = shouldCalls
            /\ onErrors' = onErrors
            /\ Stored \subseteq Stored']_vars

C7_Witness ==
  /\ shouldOutcome = "false"
  /\ pc = "stopped"
  /\ Len(received) = 1
  /\ Stored = 2..MaxItems

\* C8: when onDequeue raises for an item the fault is reported through onError
\* and the loop goes on to its next iteration; the item is not put back in the
\* queue and is never passed to onDequeue again, and the items that follow keep
\* their order.
C8_FaultStep ==
  (pc = "onDequeue" /\ onErrors' # onErrors) =>
     /\ onErrors' = Append(onErrors, "item")
     /\ pc' = "should"
     /\ shouldCalls' = shouldCalls + 1
     /\ Stored' = Stored

C8_AtMostOnce ==
  /\ NoDuplicates(received)
  /\ Range(received) \cap Stored = {}
  /\ (queueType = IN_MEMORY \/ enqCount = preCount) => InOrder(received)

StrictlyIncreasing(s) == \A i, j \in 1..Len(s) : i < j => s[i] < s[j]

C4_EventOrder == \A s \in Sinks : StrictlyIncreasing(sinkEvents[s])

\* The same under the in-memory backend.
C4_InMemoryOrder == queueType = IN_MEMORY => C4_EventOrder

\* C9: for init; lockFields(A); lockFields(B); go(), setField of every sink gets
\* A, B, {source, version}, the compiled metadata in this order, and a broadcast
\* starts only when the previous one has completed on every sink.
CallNames == [i \in 1..Len(calls) |-> calls[i].c]
InitLockLockGo == <<"init", "lockFields", "lockFields", "go">>
CalledInitLockLockGo == Len(calls) >= 4 /\ SubSeq(CallNames, 1, 4) = InitLockLockGo
ExpectedTags == <<LockTag(1), LockTag(2), SVTag, MDTag>>

C9_Order ==
  CalledInitLockLockGo =>
     \A s \in Sinks : \A i \in 1..Len(sinkTags[s]) : i <= 4 => sinkTags[s][i] = ExpectedTags[i]

C9_BroadcastStep ==
  (sinkTags' # sinkTags) =>
     /\ pend = {}
     /\ step = NoStep
     /\ \A s, t \in Sinks : sinkTags[s] = sinkTags[t]

C9_FieldLockOrder == []C9_Order /\ [][C9_BroadcastStep]_vars

C9_Witness ==
  /\ CalledInitLockLockGo
  /\ \A s \in Sinks : sinkTags[s] = ExpectedTags

\* C10: once init(S, V), the lockFields calls and go() have all run, the lock
\* fields a sink has merged hold source = S, version = V and every key of every
\* fragment locked before go(); a broadcast never removes a key, and changes the
\* value of a key only when it carries that key.
LocksThenGo ==
  /\ Len(calls) >= 2
  /\ calls[Len(calls)].c = "go"
  /\ \A i \in 2..(Len(calls) - 1) : calls[i].c = "lockFields"
AllRun == chain = <<>> /\ step = NoStep /\ ~rejected
LockedKeys == UNION {KeysOf(mergeMetadata(calls[i].data)) : i \in LockCalls}

C10_Final ==
  (LocksThenGo /\ AllRun) =>
     \A s \in Sinks :
        /\ Leaf("source", SourceValue) \in lockState[s]
        /\ Leaf("version", VersionValue) \in lockState[s]
        /\ LockedKeys \subseteq KeysOf(lockState[s])

C10_MergeStep ==
  (lockState' # lockState) =>
     \A s \in Sinks : \A k \in KeysOf(lockState[s]) :
        /\ k \in KeysOf(lockState'[s])
        /\ k \notin KeysOf(lastFields') => Sub(lockState'[s], k) = Sub(lockState[s], k)

LocksBeforeGo == {i \in LockCalls : \A g \in GoCalls : i < g}
DueTags == [i \in 1..Cardinality(LocksBeforeGo) |-> LockTag(i)] \o <<SVTag, MDTag>>
IsPrefix(p, s) == Len(p) <= Len(s) /\ SubSeq(s, 1, Len(p)) = p

C11_NoEventBeforeReady ==
  /\ (initialized # READY) =>
        /\ pc = "idle"
        /\ received = <<>>
        /\ \A s \in Sinks : sinkEvents[s] = <<>>
        /\ Stored = 1..enqCount
  /\ (pc # "idle") => \A s \in Sinks : IsPrefix(DueTags, sinkTags[s])

C11_Witness ==
  /\ preCount >= 1
  /\ Cardinality(LocksBeforeGo) = MaxLocks
  /\ \A s \in Sinks : sinkEvents[s] # <<>> /\ sinkTags[s] = DueTags

\* C12: after a sink has raised a BlockError with the permanent time limit during
\* the send of an item, sendEvent is invoked for no later item.
PermanentRaised == \E i \in 1..Len(blocks) : blocks[i].permanent

C12_PermanentBlockHalts == [][PermanentRaised => received' = received]_vars

\* The same when the permanent BlockError is the last one the send handled.
C12_LastPermanentHalts == [][(expiration = Permanent) => received' = received]_vars

\* C13: once handleBlockError has handled a permanent BlockError, the state stays
\* permanent and every later retry() returns false, also in a session that
\* starts with the record it persisted.
C13_Step ==
  (PermanentRaised \/ stored.expiration = Permanent) =>
     /\ stored'.expiration = Permanent
     /\ (pc = "should" /\ pc' # "should") => shouldOutcome' = "false"

C13_PermanentStays == [][C13_Step]_vars

\* The same for the state the disabler holds in a session.
C13_LastPermanentStays ==
  [][(expiration = Permanent) =>
        /\ expiration' = Permanent
        /\ stored'.expiration = Permanent \/ stored' = NoRecord
        /\ (pc = "should" /\ pc' # "should") => shouldOutcome' = "false"]_vars

\* C14: storeEvents() is true exactly when the action is not DROP, and a logEvent
\* call made while the action is DROP leaves the main queue as it is; any other
\* logEvent call enqueues its event.
C14_LogEventStep ==
  (logCount' = logCount + 1) =>
     /\ storeEvents <=> action \in {TRANSMIT, MAINTAIN}
     /\ IF action = DROP
          THEN UNCHANGED <<backendVars, enqCount>>
          ELSE enqCount' = enqCount + 1 /\ Stored' = Stored \cup {logCount + 1}

C14_DropGate == [](action \in EVENT_ACTION) /\ [][C14_LogEventStep]_vars

C14_Witness == action = DROP /\ logCount = 2 /\ enqCount = 1 /\ Stored = {}

\* C15: in a session that starts with a persisted DROP record (no sink has raised
\* a BlockError in the session), no event passed to logEvent is enqueued.
C15_PersistedDropGate == (blocks = <<>> /\ stored.action = DROP) => enqCount = 0

\* The same for the calls made once the storage read of disabler.init is done.
C15_AfterStorageRead ==
  [][(blocks = <<>> /\ stored.action = DROP /\ action = DROP) => enqCount' = enqCount]_vars

\* C16: the steps init, lockFields and go append run one at a time in the order
\* of the calls: the steps not yet started are the tail of the steps appended,
\* and a step starts only when it is the oldest one waiting and the step before
\* it has completed its asynchronous work.
RECURSIVE StepsAppended(_)
StepsAppended(n) ==
  IF n = 0 THEN <<>>
  ELSE StepsAppended(n - 1) \o
       (IF calls[n].c = "init"
          THEN <<StepOf("disablerInit", <<"", 0>>, <<>>),
                 StepOf("initializeLoggers", <<"", 0>>, <<>>)>>
        ELSE IF calls[n].c = "lockFields"
          THEN <<StepOf("lockFields", LockTag(Cardinality({i \in LockCalls : i <= n})),
                        calls[n].data)>>
        ELSE <<StepOf("lockFields", SVTag, <<SourceVersion>>),
               StepOf("compileMetadata", MDTag, <<>>),
               StepOf("start", <<"", 0>>, <<>>)>>)
IsSuffix(p, s) == Len(p) <= Len(s) /\ SubSeq(s, Len(s) - Len(p) + 1, Len(s)) = p

C16_Waiting ==
  /\ IsSuffix(chain, StepsAppended(Len(calls)))
  /\ (step # NoStep) =>
        IsSuffix(<<step>> \o chain, StepsAppended(Len(calls)))
  /\ (pend # {}) => step # NoStep

C16_StartStep ==
  (Len(chain') < Len(chain)) =>
     /\ chain' = Tail(chain)
     /\ step = NoStep
     /\ pend = {}
     /\ step' \in {NoStep, Head(chain)}

InitHookRaises ==
  /\ step = NoStep
  /\ chain # <<>>
  /\ Head(chain).kind = "initializeLoggers"
  /\ chain' = Tail(chain)
  /\ faults' > faults
InitHookRejects == step.kind = "initializeLoggers" /\ faults' > faults

C17_InitFailureIsError ==
  [][(InitHookRaises \/ InitHookRejects) => initialized' = ERROR]_vars

\* The same for a promise that rejects only.
C17_RejectionIsError == [][InitHookRejects => initialized' = ERROR]_vars

\* C18: while the state is ERROR, go() does not move it to READY and does not
\* start the main dequeue loop, and no logged event reaches a sink.
C18_InError ==
  (initialized = ERROR) =>
     /\ pc = "idle"
     /\ loopsStarted = 0
     /\ received = <<>>
     /\ \A s \in Sinks : sinkEvents[s] = <<>>

C18_ErrorHalts == []C18_InError /\ [][(initialized = ERROR) => initialized' # READY]_vars

C18_Witness ==
  /\ initialized = ERROR
  /\ GoCalls # {}
  /\ chain = <<>>
  /\ step = NoStep
  /\ ~rejected
  /\ logCount = MaxEvents
  /\ Stored = 1..MaxEvents

\* C19: the state moves only NOT_STARTED -> IN_PROGRESS -> LOGGERS_READY ->
\* READY, with ERROR entered from IN_PROGRESS only; READY and ERROR are never left.
C19_Forward ==
  (initialized' # initialized) =>
     \/ initialized = NOT_STARTED /\ initialized' = IN_PROGRESS
     \/ initialized = IN_PROGRESS /\ initialized' \in {LOGGERS_READY, ERROR}
     \/ initialized = LOGGERS_READY /\ initialized' = READY

C19_ForwardOnly == [][C19_Forward]_vars

\* The part of it about ERROR and READY alone.
C19_NoReentry == [][(initialized \in {READY, ERROR}) => initialized' = initialized]_vars

\* C20: for a failure count n the reconnect delay is min(1000 * 2^n, 900000)
\* milliseconds: 1000 * 2^n below n = 10 and the cap 900000 from n = 10 on, and
\* never less than the delay of a smaller count.
DelayOf(n) == IF n >= 10 THEN 900000 ELSE 1000 * 2^n

C20_BackoffDelay ==
  /\ (backoffMs # -1) =>
        /\ backoffMs = DelayOf(backoffN)
        /\ backoffMs <= 900000
        /\ \A m \in 0..backoffN : calculateExponentialBackoff(m) <= backoffMs
  /\ (wsPc = "delay") => wsDelay = DelayOf(failures)

C20_Witness ==
  /\ backoffN = 12
  /\ backoffMs = 900000
  /\ wsPc = "delay"
  /\ failures = 10
  /\ wsDelay = 900000

\* C21: on the persistent backend, when dequeue is called before any enqueue and
\* one item is then enqueued, the item is never written to the store (no
\* objectStore.add call is made) and the dequeue resolves with it.
DequeueThenOneEnqueue == queueType = PERSISTENT /\ firstEnq = "after" /\ enqCount = 1

C21_ShortCircuit ==
  DequeueThenOneEnqueue =>
     /\ writes = 0
     /\ rows = <<>>
     /\ (dbOperationQueue = <<>> /\ handed = NoOp /\ txq = <<>> /\ proc = "wait")
           => Len(received) = 1

\* The same for an enqueue that is processed while the dequeue is parked on
\* nextItemPromise.
C21_ParkedDequeue ==
  [][(nextItemPromise /\ ~nextItemPromise') =>
        /\ writes' = writes
        /\ Len(received') = Len(received) + 1]_vars

\* C22: a retry() call that returns true writes the reset policy (TRANSMIT, null)
\* to storage only if the call before it did not: of two consecutive calls made
\* after the expiration has elapsed, with no BlockError handled in between, at
\* most one writes.
RetryReturnsTrue == pc = "should" /\ pc' = "dequeue"

C22_IdempotentReset == resetWrites <= Len(blocks) + 1

\* The same where `storage` is thunkStorage: a call writes exactly when the record
\* differs from the reset policy.
C22_ThunkStorageStep ==
  (RetryReturnsTrue /\ storageKind = THUNK_STORAGE) =>
     /\ stored' = DEFAULTS
     /\ resetWrites' = (IF stored = DEFAULTS THEN resetWrites ELSE resetWrites + 1)

C22_ThunkStorage ==
  [](storageKind = THUNK_STORAGE => resetWrites <= Len(blocks) + 1)
    /\ [][C22_ThunkStorageStep]_vars

\* C23: new Queue with queueType PERSISTENT where indexedDB is not defined raises
\* to the caller of the constructor; with AUTODETECT the same environment gives
\* the in-memory backend without an error, and an unknown queueType raises.
C23_ConstructorRaises ==
  (constructed # "no") =>
     /\ (option = PERSISTENT /\ ~idbDefined) => constructed = "raised"
     /\ (option = AUTODETECT /\ ~idbDefined) => constructed = "yes" /\ queueType = IN_MEMORY
     /\ (option \notin {AUTODETECT, IN_MEMORY, PERSISTENT}) => constructed = "raised"

\* The same without the PERSISTENT case.
C23_AutodetectAndUnknown ==
  (constructed # "no") =>
     /\ (option = AUTODETECT /\ ~idbDefined) => constructed = "yes" /\ queueType = IN_MEMORY
     /\ (option = AUTODETECT /\ idbDefined) => constructed = "yes" /\ queueType = PERSISTENT
     /\ (option \notin {AUTODETECT, IN_MEMORY, PERSISTENT}) => constructed = "raised"

\* C24: without a restart, an event accepted by logEvent fails to reach a sink
\* only if sendEvent raised a fault for it: when no sink has raised a fault and
\* no BlockError was permanent, every event sendEvent has returned for has been
\* accepted by every sink.
Sent == {k \in Range(received) : ~(pc = "onDequeue" /\ item = k)}

C24_NoLossWithoutFault ==
  (faults = 0 /\ ~PermanentRaised) =>
     \A k \in Sent : \A s \in Sinks : k \in Range(sinkEvents[s])

\* The same when no sink raised a BlockError either.
C24_NoLossWithoutBlock ==
  (faults = 0 /\ blocks = <<>>) =>
     \A k \in Sent : \A s \in Sinks : k \in Range(sinkEvents[s])

\* A sink is offered an event only by the sendEvent call of that event, and
\* sendEvent is called at most once for an event.
C24_OfferedOnce ==
  [](NoDuplicates(received))
    /\ [][\A s \in Sinks : sinkEvents'[s] # sinkEvents[s] =>
             pc = "onDequeue" /\ sinkEvents'[s] = Append(sinkEvents[s], item)]_vars

\* C25: the processing loop of the persistent backend starts an operation only
\* when the store request of the operation before it has completed, so at most
\* one store transaction is in flight at any time.
Dispatched == Len(txq') > Len(txq) \/ (nextItemPromise /\ ~nextItemPromise')

C25_OneTransaction ==
  [](Len(txq) <= 1) /\ [][Dispatched => txq = <<>>]_vars

\* C26: the dequeue loop of a queue ends only because initialize() or
\* shouldDequeue() returned false or raised, and every end is reported through
\* onError; a backend dequeue that rejects does not end it.
LoopEnded == pc \in {"stopped", "rejected"}

C26_LoopEndsOnlyByGate ==
  LoopEnded =>
     /\ Stopped(initOutcome) \/ Stopped(shouldOutcome)
     /\ onErrors # <<>>
     /\ onErrors[Len(onErrors)] \in {"init", "should"}

\* The same for the ends that are not a rejection of dequeue().
C26_GateEndsReported ==
  (pc = "stopped") =>
     /\ Stopped(initOutcome) \/ Stopped(shouldOutcome)
     /\ onErrors # <<>>
     /\ onErrors[Len(onErrors)] \in {"init", "should"}

\* C27: at most one socket made by the transport is connecting or open at any
\* time, and the attempt the loop awaits is settled only by an event of the
\* socket made for it, never by an event of an earlier socket.
Live(state) == state \in {"connecting", "open"}
LiveSockets == {x \in SocketIds : Live(StateOf(x))}
AttemptSettled == wsPc = "connect" /\ wsPc' # "connect"

C27_OneSocket ==
  [](Cardinality(LiveSockets) <= 1) /\ [][AttemptSettled => sock' # sock]_vars

\* What holds of it: there is one live socket as long as every earlier socket
\* still to fire an event has ended, and an attempt made while no earlier socket
\* has an event to come is settled by its own socket.
C27_WithoutLateEvents ==
  []((\A i \in 1..Len(stale) : stale[i] = "erred") => Cardinality(LiveSockets) <= 1)
    /\ [][(stale = <<>> /\ AttemptSettled) => sock' # sock]_vars

\* C28: whenever a connection ends, by failing to open or by closing or erroring
\* after it had opened, the loop sets READY false, increments failures and waits
\* the backoff delay before it connects again; failures is reset to 0 only by a
\* successful open.
ConnectionEnds == (wsPc = "connect" /\ wsPc' \notin {"connect", "open"}) \/ (wsPc = "open" /\ wsPc' # "open")

C28_EndStep ==
  /\ ConnectionEnds =>
        /\ ~wsReady'
        /\ failures' = failures + 1
        /\ wsPc' = "delay"
        /\ wsDelay' = calculateExponentialBackoff(failures')
  /\ (failures' = 0 /\ failures # 0) => (wsPc = "connect" /\ wsPc' = "open" /\ wsReady')

C28_FailureBackoff == [][C28_EndStep]_vars

\* The same for the attempts that fail to open.
C28_OpeningFailure ==
  [][/\ (wsPc = "connect" /\ wsPc' \notin {"connect", "open"}) =>
           /\ ~wsReady'
           /\ failures' = failures + 1
           /\ wsPc' = "delay"
           /\ wsDelay' = calculateExponentialBackoff(failures')
     /\ (failures' = 0 /\ failures # 0) => (wsPc = "connect" /\ wsPc' = "open" /\ wsReady')]_vars

\* C29: after every (re)connect, when the metadata object of the transport is
\* not empty, the first message sent on the new connection is not an event
\* payload buffered in the transport queue: the metadata object goes ahead.
C29_AheadOfEvents == (sent.first /\ sent.metadata) => sent.kind # "event"

\* The same with the data of setField counted too: the first message is the
\* metadata object itself.
C29_MetadataFirst == (sent.first /\ sent.metadata) => sent.kind = "metadata"

\* What holds of it: when another message went first, the metadata object is
\* behind it in the transport queue.
C29_MetadataBehind ==
  (sent.first /\ sent.metadata /\ sent.kind # "metadata") => "metadata" \in Range(wsq)

\* C30: socketSend is called with an item only while READY is true and `socket`
\* is open.
C30_SendOnlyWhenReady == (sent # NoMessage) => (sent.ready /\ sent.state = "open")

\* The same for the items the queue holds when waitForWSReady returns.
C30_ReadyWhenChecked ==
  [][(sent' # sent /\ tpc # "dequeue") => sent'.ready]_vars

\* C31: an item handed to the transport while READY is false stays in the
\* transport queue: nothing is passed to socket.send in a step that starts and
\* ends with READY false.
C31_StaysQueued == [][(~wsReady /\ ~wsReady') => sent' = sent]_vars

\* What holds of it: an item handed over while the dequeue loop is not suspended
\* in dequeue() is appended to the transport queue, and the loop has no end: it
\* is before init(), or in waitForWSReady, or in dequeue().
C31_QueuedUnlessParked ==
  [][(tpc # "dequeue" /\ ~wsReady /\ ~wsReady') => sent' = sent]_vars
C31_LoopNeverEnds == tpc \in {"off", "initialize", "should", "dequeue"}

\* With READY true from some point on and waitForWSReady returning, a full
\* transport queue does not stay full.
C31_DrainsWhenReady ==
  []((Len(wsq) = MaxWsq /\ []wsReady) => <>(Len(wsq) < MaxWsq))

\* C32: receiveMessage with a blocklist message raises nothing, leaves the
\* disabler state and the sockets as they are; the next wsLogData call clears
\* blockerror, calls socket.close(), raises the BlockError to sendEvent (which
\* hands it to the disabler) and enqueues nothing; a wsLogData call with no
\* BlockError kept raises nothing and enqueues its payload.
ReceiveStep == built' = built + 1
C32_Receive ==
  ReceiveStep => UNCHANGED <<action, expiration, stored, sock, stale, wsReady, handled>>
C32_RaisingSend ==
  (WsLogData /\ blockerror # NoBlock) =>
    /\ blockerror' = NoBlock
    /\ sock' \notin {"connecting", "open"}
    /\ handled' = handled + 1
    /\ <<action', expiration'>> # <<action, expiration>>
    /\ UNCHANGED <<wsq, sent, tpc>>
C32_QuietSend ==
  (WsLogData /\ blockerror = NoBlock) =>
    /\ handled' = handled
    /\ UNCHANGED <<action, expiration, stored, sock, blockerror>>
    /\ \/ wsq' = Append(wsq, "event")
       \/ sent'.kind = "event" /\ tpc = "dequeue"
C32_BlockAtNextSend == [][C32_Receive /\ C32_RaisingSend /\ C32_QuietSend]_vars

\* A BlockError was kept, raised by the next wsLogData call and handled as
\* permanent, and `socket` is closing.
C32_Witness ==
  /\ built = 1
  /\ handled = 1
  /\ blockerror = NoBlock
  /\ sock = "closing"
  /\ expiration = Permanent

\* C33: every BlockError receiveMessage constructed was raised to sendEvent, and
\* handed to disabler.handleBlockError, exactly once, or is the one still kept.
C33_ConsumedOnce == built = handled + (IF blockerror = NoBlock THEN 0 ELSE 1)

\* What holds of it: no BlockError is handled twice, and one that is kept is
\* raised by the first wsLogData call after it.
C33_NeverTwice == handled <= built

\* C38: once a permanent BlockError raised by wsLogData has been handled by the
\* disabler, the transport passes nothing more to socket.send of an open socket,
\* neither what its queue holds nor the metadata object of a later connection
\* (the data of a setField call made afterwards is left aside, and so is what it
\* passes to the socket that is closing, which discards it).
C38_SilentAfterPermanent ==
  [][(handled > 0 /\ expiration = Permanent /\ ~WsSetField) =>
       (sent' = sent \/ sent'.state # "open")]_vars

\* What holds of it: the main loop hands the sink no further payload.
C38_NoFurtherPayload ==
  [][(handled > 0 /\ expiration = Permanent) => ~WsLogData]_vars

C35_SuspendedUntil == [][(now < deadline) => received' = received]_vars

\* What holds of it, for the BlockError handled last: while its expiration lies
\* ahead no item is handed to sendEvent; the retry() that returns then has reset
\* the state and returns true; and the items are handed over in enqueue order.
C35_LastHandled ==
  /\ [][(expiration.k = "at" /\ now < expiration.t) => received' = received]_vars
  /\ [][(expiration.k = "at" /\ pc = "should" /\ pc' # "should") =>
          /\ now >= expiration.t
          /\ action' = TRANSMIT
          /\ expiration' = NullExpiration
          /\ shouldOutcome' = "true"]_vars
  /\ [](\A i, j \in 1..Len(received) : i < j => received[i] < received[j])

\* C36: sendEvent calls the sinks in registration order and a BlockError stops
\* nothing: a sink is left out only when a sink before it raised another fault;
\* each sink that accepts receives the item; when a sink raised a BlockError
\* the disabler has handled it; and sendEvent raises only another fault.
SendStep == pc = "onDequeue" /\ pc' # "onDequeue"
C36_Step ==
  SendStep =>
    /\ \A s \in Sinks :
         fanout'[s] = NotCalled => \E r \in Sinks : r < s /\ fanout'[r] = "fault"
    /\ \A s \in Sinks :
         sinkEvents'[s] = IF fanout'[s] = "ok" THEN Append(sinkEvents[s], item)
                                                ELSE sinkEvents[s]
    /\ (\E s \in Sinks : fanout'[s] = "block") =>
         /\ Len(blocks') = Len(blocks) + 1
         /\ expiration' # NullExpiration
         /\ stored' = StorageSet(storageKind, [action |-> action', expiration |-> expiration'])
    /\ (\A s \in Sinks : fanout'[s] # "fault") => onErrors' = onErrors
C36_BlockDoesNotStop == [][C36_Step]_vars

\* The first sink raised a BlockError, the second received the same item, and
\* nothing was reported to onError.
C36_Witness ==
  /\ fanout[1] = "block"
  /\ fanout[2] = "ok"
  /\ sinkEvents[1] = <<>>
  /\ sinkEvents[2] = <<1>>
  /\ expiration # NullExpiration
  /\ onErrors = <<>>

\* C39: when sink k raises a fault that is not a BlockError, the sinks before k
\* were called with the item, the sinks after k are not, sendEvent raises (the
\* loop reports it and goes on), and as an item is handed to sendEvent once and a
\* sink receives only the item being sent, they never receive it.
C39_Step ==
  SendStep =>
    \A k \in Sinks :
      fanout'[k] = "fault" =>
        /\ \A s \in Sinks : s < k => fanout'[s] \in {"ok", "block"}
        /\ \A s \in Sinks : s > k => fanout'[s] = NotCalled /\ sinkEvents'[s] = sinkEvents[s]
        /\ Len(onErrors') = Len(onErrors) + 1
        /\ pc' = "should"
C39_FaultStopsFanOut ==
  /\ [][C39_Step]_vars
  /\ [](NoDuplicates(received))
  /\ [][\A s \in Sinks : sinkEvents'[s] # sinkEvents[s] =>
          SendStep /\ sinkEvents'[s] = Append(sinkEvents[s], item)]_vars

\* Item 1 made the first sink raise a fault: no sink has it, and both received
\* item 2 afterwards.
C39_Witness ==
  /\ received = <<1, 2>>
  /\ faults = 1
  /\ blocks = <<>>
  /\ \A s \in Sinks : sinkEvents[s] = <<2>>

\* C37: in the merge of the lock fields an array is one value: after
\* mergeDictionary(target, source), each key of source that holds an array holds
\* in target that array, whole.
C37_ArraysOpaque ==
  merged # Unmerged =>
    \A k \in KeysOf(mergeSource) :
      IsArray(mergeSource, k) => Sub(merged, k) = Sub(mergeSource, k)

\* What holds of it: a value of source that is not an object overwrites, an
\* object of source replaces a value of target that is not an object, two
\* objects are merged key by key, and the keys source has not are kept.
C37_ObjectsAndValues ==
  merged # Unmerged =>
    /\ \A k \in KeysOf(mergeSource) :
         IF IsObject(mergeSource, k) /\ k \in KeysOf(mergeTarget) /\ IsObject(mergeTarget, k)
           THEN /\ \A j \in KeysOf(Sub(mergeSource, k)) :
                     Sub(Sub(merged, k), j) = Sub(Sub(mergeSource, k), j)
                /\ \A j \in KeysOf(Sub(mergeTarget, k)) \ KeysOf(Sub(mergeSource, k)) :
                     Sub(Sub(merged, k), j) = Sub(Sub(mergeTarget, k), j)
           ELSE Sub(merged, k) = Sub(mergeSource, k)
    /\ \A k \in KeysOf(mergeTarget) \ KeysOf(mergeSource) :
         Sub(merged, k) = Sub(mergeTarget, k)


\* C40: a fault raised by a sink's setField during one lockFields step is
\* contained to that step: the chain of steps is not rejected by it, so the
\* steps appended afterwards (later lockFields broadcasts, the steps of go())
\* still run.
SetFieldRaises ==
  /\ step = NoStep
  /\ chain # <<>>
  /\ Head(chain).kind = "lockFields"
  /\ chain' = Tail(chain)
  /\ faults' > faults
SetFieldRejects == step.kind = "lockFields" /\ faults' > faults

C40_FaultContained == [][(SetFieldRaises \/ SetFieldRejects) => ~rejected']_vars

\* What the code does after such a fault: no step appended to the chain runs,
\* no sink gets a further broadcast and the state does not move to READY.
C40_NoStepAfterFault ==
  [][rejected =>
        /\ Len(chain') >= Len(chain)
        /\ step' = step
        /\ sinkTags' = sinkTags
        /\ loopsStarted' = loopsStarted
        /\ (initialized' = READY => initialized = READY)]_vars

\* ------------------------------------------------------- specification
\* No call of mergeDictionary is observed.
MergeIdle ==
  /\ mergeTarget = {}
  /\ mergeSource = {}
  /\ merged = {}

\* new Queue(name, {queueType}) in an environment with or without indexedDB.
QueueNew ==
  /\ run = FALSE
  /\ pc = "idle"
  /\ item = 0
  /\ memq = <<>>
  /\ dbOpen = FALSE
  /\ dbOperationQueue = <<>>
  /\ nextDBOperationPromise = FALSE
  /\ nextItemPromise = FALSE
  /\ proc = "off"
  /\ handed = NoOp
  /\ rows = <<>>
  /\ txq = <<>>
  /\ received = <<>>
  /\ onErrors = <<>>
  /\ initOutcome = "none"
  /\ shouldOutcome = "none"
  /\ shouldCalls = 0
  /\ dequeueCalls = 0
  /\ loopsStarted = 0
  /\ onceThrows = 0
  /\ startCalls = 0
  /\ enqCount = 0
  /\ preCount = -1
  /\ writes = 0
  /\ firstEnq = "none"
  /\ resetWrites = 0
  /\ deadline = 0

QueueFresh == QueueNew /\ MergeIdle

QueueInit ==
  /\ option = AUTODETECT
  /\ idbDefined \in BOOLEAN
  /\ queueType = Resolved(option, idbDefined)
  /\ constructed = "yes"
  /\ QueueFresh

Init == QueueInit /\ LoIdle /\ WsIdle /\ stored = NoRecord /\ storageKind = THUNK_STORAGE

Next ==
  \/ Enqueue
  \/ StartDequeueLoop
  \/ InitializeSettles
  \/ ShouldDequeueSettles
  \/ OnDequeueSettles
  \/ MemDequeue
  \/ OpenSuccess
  \/ ProcNext
  \/ ProcHanded
  \/ StoreAddSuccess
  \/ StoreCursorFound
  \/ StoreCursorEmpty
  \/ StoreDeleteSuccess

Spec == Init /\ [][Next]_vars

\* The Queue over a store whose requests may fail.
NextStoreFault ==
  \/ Enqueue
  \/ StartDequeueLoop
  \/ InitializeSettles
  \/ ShouldDequeueSettles
  \/ OnDequeueSettles
  \/ MemDequeue
  \/ OpenSuccess
  \/ ProcNext
  \/ ProcHanded
  \/ StoreAddSuccess
  \/ StoreAddError
  \/ StoreCursorFound
  \/ StoreCursorEmpty
  \/ StoreCursorError
  \/ StoreDeleteSuccess
  \/ StoreDeleteError

SpecStoreFault == Init /\ [][NextStoreFault]_vars

\* A caller that constructs the Queue with any queueType, in either environment.
CtorStart ==
  /\ constructed = "no"
  /\ option \in QueueOptions
  /\ idbDefined \in BOOLEAN
  /\ queueType = "none"
  /\ QueueFresh
  /\ LoIdle
  /\ WsIdle
  /\ stored = NoRecord
  /\ storageKind = THUNK_STORAGE

NextCtor ==
  \/ Construct
  \/ constructed = "yes" /\ Enqueue
  \/ constructed = "yes" /\ StartDequeueLoop
  \/ constructed = "yes" /\ InitializeSettles
  \/ constructed = "yes" /\ ShouldDequeueSettles
  \/ constructed = "yes" /\ OnDequeueSettles
  \/ constructed = "yes" /\ MemDequeue
  \/ constructed = "yes" /\ OpenSuccess
  \/ constructed = "yes" /\ ProcNext
  \/ constructed = "yes" /\ ProcHanded
  \/ constructed = "yes" /\ StoreAddSuccess
  \/ constructed = "yes" /\ StoreCursorFound
  \/ constructed = "yes" /\ StoreCursorEmpty
  \/ constructed = "yes" /\ StoreDeleteSuccess

SpecCtor == CtorStart /\ [][NextCtor]_vars

\* The orchestrator: init() first, then lockFields, go and logEvent in any order,
\* with the storage record a previous session may have left.
PersistedRecords == {NoRecord, [action |-> DROP, expiration |-> Permanent]}

LoStart ==
  /\ QueueInit
  /\ LoIdle
  /\ WsIdle
  /\ stored \in PersistedRecords
  /\ storageKind = THUNK_STORAGE

NextLo ==
  \/ LoInit
  \/ GoOnce
  \/ LogEvent
  \/ RunDisablerInit
  \/ DisablerInitDone
  \/ RunInitializeLoggers
  \/ SinkInitSettles
  \/ RunLockFields
  \/ RunCompileMetadata
  \/ SetFieldSettles
  \/ RunStart
  \/ LoIsInitialized
  \/ Retry
  \/ SendEvent
  \/ Tick
  \/ MemDequeue
  \/ OpenSuccess
  \/ ProcNext
  \/ ProcHanded
  \/ StoreAddSuccess
  \/ StoreCursorFound
  \/ StoreCursorEmpty
  \/ StoreDeleteSuccess

SpecLo == LoStart /\ [][NextLo]_vars

\* The orchestrator with either storage backend.
StorageStart ==
  /\ QueueInit
  /\ LoIdle
  /\ WsIdle
  /\ stored = NoRecord
  /\ storageKind \in StorageKinds

SpecStorage == StorageStart /\ [][NextLo]_vars

\* The orchestrator where indexedDB is not defined (the main queue is in memory),
\* with a caller that locks fields before go() and logs events.
GateStart == Init /\ ~idbDefined

NextGate ==
  \/ LoInit
  \/ LockFieldsPreauth
  \/ GoOnce
  \/ LogEvent
  \/ RunDisablerInit
  \/ DisablerInitDone
  \/ RunInitializeLoggers
  \/ SinkInitSettles
  \/ RunLockFields
  \/ RunCompileMetadata
  \/ SetFieldSettles
  \/ RunStart
  \/ LoIsInitialized
  \/ Retry
  \/ SendEvent
  \/ Tick
  \/ MemDequeue

SpecGate == GateStart /\ [][NextGate]_vars

\* The websocket sink's connection loop, and calculateExponentialBackoff applied
\* to every failure count.
BackoffStart ==
  /\ QueueInit
  /\ LoIdle
  /\ stored = NoRecord
  /\ storageKind = THUNK_STORAGE
  /\ wsPc = "off"
  /\ failures = 0
  /\ wsReady = FALSE
  /\ wsDelay = 0
  /\ backoffN \in 0..MaxFailures
  /\ backoffMs = -1
  /\ SocketIdle

NextBackoff ==
  \/ WsInit
  \/ SocketOpenEvent
  \/ SocketErrorEvent
  \/ SocketCloseEvent
  \/ DelayElapses
  \/ CalculateBackoff

SpecBackoff == BackoffStart /\ [][NextBackoff]_vars

\* The websocket sink: its connection loop, its transport queue and a caller of
\* wsLogData and setField.
NextWs ==
  \/ WsInit
  \/ SocketOpenEvent
  \/ SocketErrorEvent
  \/ SocketCloseEvent
  \/ DelayElapses
  \/ WaitForWSReady
  \/ WsLogData
  \/ WsSetField

SpecWs == Init /\ [][NextWs]_vars

\* The orchestrator with a caller that calls init() more than once.
NextReinit ==
  \/ LoInit
  \/ LoInitAgain
  \/ Go
  \/ RunDisablerInit
  \/ DisablerInitDone
  \/ RunInitializeLoggers
  \/ SinkInitSettles
  \/ RunLockFields
  \/ RunCompileMetadata
  \/ SetFieldSettles
  \/ RunStart
  \/ LoIsInitialized
  \/ Retry
  \/ OpenSuccess
  \/ ProcNext
  \/ ProcHanded
  \/ StoreCursorEmpty

SpecReinit == Init /\ [][NextReinit]_vars

\* The orchestrator with a caller that locks fields and logs no event.
NextLock ==
  \/ LoInit
  \/ LockFields
  \/ Go
  \/ RunDisablerInit
  \/ DisablerInitDone
  \/ RunInitializeLoggers
  \/ SinkInitSettles
  \/ RunLockFields
  \/ RunCompileMetadata
  \/ SetFieldSettles
  \/ RunStart
  \/ LoIsInitialized
  \/ Retry
  \/ OpenSuccess
  \/ ProcNext
  \/ ProcHanded
  \/ StoreCursorEmpty

SpecLock == Init /\ [][NextLock]_vars

\* The websocket sink with util.backoff's timer firing: waitForWSReady returns
\* whenever READY stays true.
SpecWsFair == SpecWs /\ WF_vars(WaitForWSReady)

\* The websocket sink with a server that sends blocklist messages, and the main
\* loop as the caller of wsLogData. Connections end by the close event, and the
\* first attempt that fails to open is the last.
NextBlock ==
  \/ WsInit
  \/ SocketOpenEvent
  \/ SocketCloseEvent
  \/ WaitForWSReady
  \/ WsLogData
  \/ WsSetField
  \/ ReceiveMessage
  \/ DisablerRetry

SpecBlock == Init /\ [][NextBlock]_vars

\* The disabler with callers of init, handleBlockError and retry, and page loads.
DisablerStart ==
  /\ QueueInit
  /\ LoIdle
  /\ WsIdle
  /\ stored = NoRecord
  /\ storageKind \in StorageKinds

NextDisabler ==
  \/ DisablerInit
  \/ Reload
  \/ HandleBlockError
  \/ DisablerRetry

SpecDisabler == DisablerStart /\ [][NextDisabler]_vars

\* The orchestrator and the main loop over the in-memory queue, with sinks whose
\* BlockErrors are timed.
NextExpiry ==
  \/ LoInit
  \/ LockFieldsPreauth
  \/ GoOnce
  \/ LogEvent
  \/ RunDisablerInit
  \/ DisablerInitDone
  \/ RunInitializeLoggers
  \/ SinkInitSettles
  \/ RunLockFields
  \/ RunCompileMetadata
  \/ SetFieldSettles
  \/ RunStart
  \/ LoIsInitialized
  \/ Retry
  \/ SendEventTimed
  \/ Tick
  \/ MemDequeue

SpecExpiry == GateStart /\ [][NextExpiry]_vars

\* The orchestrator and the main loop over the in-memory queue, with a caller
\* that makes no lockFields call of its own.
NextFanOut ==
  \/ LoInit
  \/ GoOnce
  \/ LogEvent
  \/ RunDisablerInit
  \/ DisablerInitDone
  \/ RunInitializeLoggers
  \/ SinkInitSettles
  \/ RunLockFields
  \/ RunCompileMetadata
  \/ SetFieldSettles
  \/ RunStart
  \/ LoIsInitialized
  \/ Retry
  \/ SendEvent
  \/ Tick
  \/ MemDequeue

SpecFanOut == GateStart /\ [][NextFanOut]_vars

\* mergeDictionary applied to every pair of the dictionaries.
MergeStart ==
  /\ option = AUTODETECT
  /\ idbDefined = FALSE
  /\ queueType = Resolved(option, idbDefined)
  /\ constructed = "yes"
  /\ QueueNew
  /\ LoIdle
  /\ WsIdle
  /\ stored = NoRecord
  /\ storageKind = THUNK_STORAGE
  /\ mergeTarget \in Dictionaries
  /\ mergeSource \in Dictionaries
  /\ merged = Unmerged

NextMerge == MergeDictionary

SpecMerge == MergeStart /\ [][NextMerge]_vars

====
